---- MODULE Spec2Model ----
(***************************************************************************)
(* booktag: translation of audio-file tags between the Mutagen tag         *)
(* containers (ID3, MP4, Ogg Vorbis) and the application's Metadata        *)
(* record (booktag/mutagenfacade.py, booktag/streams.py).                  *)
(*                                                                         *)
(* Python values are records tagged by the field t:                        *)
(*   none, str (s: sequence of one-character strings), int (n),            *)
(*   list / tuple (xs), bytes (pic, valid, resaved), image (ImageStream),  *)
(*   frame (ID3 text frame), stamp (ID3TimeStamp), apic (ID3 APIC frame),  *)
(*   mp4cover (mutagen.mp4.MP4Cover), b64 (base64 of a FLAC picture        *)
(*   block), picture (mutagen.flac.Picture).                               *)
(* A call result is [exc, val]: exc = "" is a normal return.               *)
(***************************************************************************)
EXTENDS Integers, Sequences, FiniteSets, TLC

VARIABLES
    fmt,     \* class of the Mutagen FileType that _open(path) returns
    tags,    \* the tag container stored in the file (native key -> value)
    meta,    \* the Metadata record held by the caller (TagName -> value)
    drop,    \* settings['metadata.tags.drop']
    saves,   \* number of audio.save() calls made so far
    edits,   \* number of Metadata assignments made by the caller
    log,     \* the calls made so far, oldest first
    calls,   \* the translation calls in progress at the same time
    shared,  \* the Mapping and Rule instances, and the settings, they share
    nodes    \* the tree.Node objects: value, parent and children of each

vars == <<fmt, tags, meta, drop, saves, edits, log, calls, shared, nodes>>

----------------------------------------------------------------------------
(* Bounds of the model. *)

MaxTags == 2       \* native keys present in the file at the start
MaxEdits == 1      \* Metadata assignments made by the caller
MaxCalls == 3      \* from_file / export / open-of-another-file calls
MaxNum == 10       \* largest track or disc number drawn
MaxPictures == 3   \* most pictures embedded in one file

----------------------------------------------------------------------------
(* Text: a string is a sequence of one-character strings. *)

\* a local variable: the body, with the name bound to the value
Bind(value, Body(_)) == Body(value)

Whitespace == {" "}
Digits == <<"0", "1", "2", "3", "4", "5", "6", "7", "8", "9">>
DigitSet == {Digits[i] : i \in 1..10}
UpperCase == {"A", "B", "C", "D", "E", "F", "G", "H", "I", "J", "K", "L", "M",
              "N", "O", "P", "Q", "R", "S", "T", "U", "V", "W", "X", "Y", "Z"}

RECURSIVE LStripWs(_)
LStripWs(s) ==
    IF s # <<>> /\ Head(s) \in Whitespace THEN LStripWs(Tail(s)) ELSE s

RECURSIVE RStripWs(_)
RStripWs(s) ==
    IF s # <<>> /\ s[Len(s)] \in Whitespace
    THEN RStripWs(SubSeq(s, 1, Len(s) - 1))
    ELSE s

\* str.strip()
Strip(s) == RStripWs(LStripWs(s))

\* sep.join(xs) for a sequence xs of strings
RECURSIVE Join(_, _)
Join(sep, xs) ==
    IF xs = <<>> THEN <<>>
    ELSE IF Len(xs) = 1 THEN xs[1]
    ELSE xs[1] \o sep \o Join(sep, Tail(xs))

\* re.split(pattern, s) where pattern is an alternation of the one-character
\* separators in seps: the pieces between separators, empty pieces included.
RECURSIVE Split(_, _, _)
Split(seps, s, cur) ==
    IF s = <<>> THEN <<cur>>
    ELSE IF Head(s) \in seps THEN <<cur>> \o Split(seps, Tail(s), <<>>)
    ELSE Split(seps, Tail(s), Append(cur, Head(s)))

DigitVal(c) == CHOOSE i \in 0..9 : Digits[i + 1] = c

\* str(n) for a natural number n
RECURSIVE NatToStr(_)
NatToStr(n) ==
    IF n < 10 THEN <<Digits[n + 1]>>
    ELSE Append(NatToStr(n \div 10), Digits[(n % 10) + 1])

\* str(n) for an integer n
IntToStr(n) == IF n < 0 THEN <<"-">> \o NatToStr(0 - n) ELSE NatToStr(n)

RECURSIVE DigitsToNat(_, _)
DigitsToNat(s, acc) ==
    IF s = <<>> THEN acc ELSE DigitsToNat(Tail(s), 10 * acc + DigitVal(Head(s)))

IsDigits(s) == s # <<>> /\ \A i \in 1..Len(s) : s[i] \in DigitSet

\* int(s) for a string s: surrounding whitespace and one sign are accepted.
\* Returns [ok, n]; ok = FALSE is Python's ValueError.
ParseInt(s) ==
    Bind(Strip(s), LAMBDA u :
        Bind(u # <<>> /\ Head(u) \in {"-", "+"}, LAMBDA signed :
            Bind(IF signed THEN Tail(u) ELSE u, LAMBDA body :
                IF IsDigits(body)
                THEN Bind(DigitsToNat(body, 0), LAMBDA n :
                         [ok |-> TRUE,
                          n |-> IF signed /\ Head(u) = "-" THEN 0 - n ELSE n])
                ELSE [ok |-> FALSE, n |-> 0])))

----------------------------------------------------------------------------
(* Python values and call results. *)

None == [t |-> "none"]
Str(s) == [t |-> "str", s |-> s]
Num(n) == [t |-> "int", n |-> n]
List(xs) == [t |-> "list", xs |-> xs]
Tuple(xs) == [t |-> "tuple", xs |-> xs]

IsNone(v) == v.t = "none"
IsSeq(v) == v.t \in {"list", "tuple"}

Ok(v) == [exc |-> "", val |-> v]
Raise(e) == [exc |-> e, val |-> None]

----------------------------------------------------------------------------
(* booktag.exceptions: the error classes the module defines.  Looking up   *)
(* any other name on the module raises AttributeError.                     *)

ExceptionClasses == {"AppBaseError", "FileError", "IsASymlinkError",
                     "DirectoryIsEmptyError", "OutdatedFileStatError",
                     "FileNotSupportedError", "FileIsTrashError"}

\* the exception that evaluating `exceptions.<name>` (and raising the
\* result) produces
exceptions(name) == IF name \in ExceptionClasses THEN name ELSE "AttributeError"

----------------------------------------------------------------------------
(* Picture types.  booktag.constants.PictureType numbers its members with  *)
(* enum.auto(), i.e. from 1 in declaration order; the ID3 standard (and    *)
(* the codes Mutagen's containers supply) numbers the same list from 0.    *)

PictureTypeNames == <<"OTHER", "FILE_ICON", "OTHER_FILE_ICON", "COVER_FRONT",
                      "COVER_BACK", "LEAFLET_PAGE", "MEDIA", "LEAD_ARTIST",
                      "ARTIST", "CONDUCTOR", "BAND", "COMPOSER", "LYRICIST",
                      "RECORDING_LOCATION", "DURING_RECORDING",
                      "DURING_PERFORMANCE", "SCREEN_CAPTURE", "FISH",
                      "ILLUSTRATION", "BAND_LOGOTYPE", "PUBLISHER_LOGOTYPE">>

\* booktag.constants.PictureType.<name>
PictureType(name) ==
    CHOOSE i \in 1..Len(PictureTypeNames) : PictureTypeNames[i] = name

\* the code a container supplies for a picture of that classification
ContainerPictureType(name) == PictureType(name) - 1

PRIORITY_ORDER == <<"COVER_FRONT", "COVER_BACK", "OTHER", "LEAFLET_PAGE",
                    "MEDIA", "LEAD_ARTIST", "ARTIST", "ILLUSTRATION">>

\* weights = {tp: pr for tp, pr in zip(PRIORITY_ORDER, range(100, 0, -10))};
\* weights.get(pictype, 0)
Weight(pictype) ==
    IF \E i \in 1..Len(PRIORITY_ORDER) : PictureType(PRIORITY_ORDER[i]) = pictype
    THEN LET i == CHOOSE j \in 1..Len(PRIORITY_ORDER) :
                      PictureType(PRIORITY_ORDER[j]) = pictype
         IN  100 - 10 * (i - 1)
    ELSE 0

----------------------------------------------------------------------------
(* Images.  Raw picture bytes are [pic, valid, format, resaved]: valid     *)
(* tells whether PIL's Image.open identifies them; resaved tells that they *)
(* were written by ImageStream._export_pil (pil.save(..., quality=90)).    *)

Bytes(pic, valid, format) ==
    [t |-> "bytes", pic |-> pic, valid |-> valid, format |-> format,
     resaved |-> FALSE]

IsBytes(v) == v.t \in {"bytes", "mp4cover"}     \* MP4Cover subclasses bytes
RawBytes(v) == IF v.t = "mp4cover" THEN v.data ELSE v

Mime(format) == IF format = "PNG" THEN "image/png" ELSE "image/jpeg"

\* ImageStream.from_file(path)
ImageStream_from_file(path) ==
    IF ~IsBytes(path) THEN Raise(exceptions("NotAnImageFileError"))
    ELSE Bind(RawBytes(path), LAMBDA raw :
             IF raw.valid
             THEN Ok([t |-> "image",
                      data |-> [raw EXCEPT !.resaved = TRUE],
                      format |-> raw.format,
                      mime |-> Mime(raw.format)])
             ELSE Raise(exceptions("NotAnImageFileError")))

\* bool(value); for an ImageStream __bool__ returns len(self._data), an int,
\* and Python raises TypeError (__bool__ should return bool).
Truth(v) ==
    CASE v.t = "none" -> [exc |-> "", val |-> FALSE]
      [] v.t = "str" -> [exc |-> "", val |-> v.s # <<>>]
      [] v.t = "int" -> [exc |-> "", val |-> v.n # 0]
      [] v.t \in {"list", "tuple"} -> [exc |-> "", val |-> v.xs # <<>>]
      [] v.t = "image" -> [exc |-> "TypeError", val |-> FALSE]
      [] OTHER -> [exc |-> "", val |-> TRUE]

\* the values for which `not x` is true without raising
Falsy(v) == Bind(Truth(v), LAMBDA b : b.exc = "" /\ ~b.val)

----------------------------------------------------------------------------
(* Filters (AbstractFilter subclasses).  A filter is [f, o]: the class     *)
(* name and the keyword options given to its constructor.                  *)

Flt(name, options) == [f |-> name, o |-> options]
NoOpts == <<>>

\* self._options.get(name, default)
Opt(o, name, default) == IF name \in DOMAIN o THEN o[name] ELSE default

\* str(x)
RECURSIVE PyStr(_)
PyStr(v) ==
    CASE v.t = "str" -> v.s
      [] v.t = "int" -> IntToStr(v.n)
      [] v.t = "none" -> <<"N", "o", "n", "e">>
      [] v.t = "stamp" -> v.text
      [] v.t = "list" ->
            <<"[">> \o Join(<<",", " ">>,
                            [i \in 1..Len(v.xs) |->
                                IF v.xs[i].t = "str"
                                THEN <<"'">> \o v.xs[i].s \o <<"'">>
                                ELSE PyStr(v.xs[i])]) \o <<"]">>
      [] OTHER -> <<"<", v.t, ">">>

\* int(x): [ok, n]; ok = FALSE is Python's TypeError or ValueError
PyInt(v) ==
    CASE v.t = "int" -> [ok |-> TRUE, n |-> v.n]
      [] v.t = "str" -> ParseInt(v.s)
      [] OTHER -> [ok |-> FALSE, n |-> 0]

RECURSIVE Concat(_)
Concat(xss) == IF xss = <<>> THEN <<>> ELSE Head(xss) \o Concat(Tail(xss))

ID3Out(o, value) ==
    IF value.t = "frame" /\ Opt(o, "attr", "text") = "text"
    THEN Ok(List(value.text))
    ELSE Ok(None)

FirstItem(o, value) ==
    IF IsSeq(value)
    THEN (IF value.xs # <<>> THEN Ok(value.xs[1]) ELSE Ok(None))
    ELSE Ok(value)

ToInt(o, value) ==
    Bind(PyInt(value), LAMBDA r :
        IF ~r.ok THEN Ok(None)
        ELSE IF Opt(o, "notzero", FALSE) /\ r.n = 0 THEN Ok(None)
        ELSE IF Opt(o, "positive", FALSE) /\ r.n < 0 THEN Ok(None)
        ELSE Ok(Num(r.n)))

ToStr(o, value) ==
    Bind(Strip(IF IsSeq(value)
               THEN Join(Opt(o, "sep", <<" ">>),
                         [i \in 1..Len(value.xs) |-> PyStr(value.xs[i])])
               ELSE PyStr(value)),
         LAMBDA text :
            IF Opt(o, "notempty", TRUE) /\ text = <<>> THEN Ok(None)
            ELSE Ok(Str(text)))

\* x is not None and x != ''
ToListKeeps(x) == x.t # "none" /\ ~(x.t = "str" /\ x.s = <<>>)

ToList(o, value) ==
    Bind(IF IsSeq(value) THEN value.xs ELSE <<value>>, LAMBDA items :
        IF \E i \in 1..Len(items) : items[i].t = "image"
        THEN Raise("TypeError")     \* ImageStream.__eq__ hashes to a str
        ELSE Bind(SelectSeq(items, ToListKeeps), LAMBDA kept :
                 IF Opt(o, "notempty", TRUE) /\ kept = <<>> THEN Ok(None)
                 ELSE Ok(List(kept))))

ToListFirstTuple(o, value) ==
    Bind(ToList(o, value), LAMBDA r :
        IF r.exc = "" /\ r.val.t = "list" THEN Ok(List(<<Tuple(r.val.xs)>>))
        ELSE r)

NonEmptySeq(s) == s # <<>>

SplitStr(o, value) ==
    LET pieces(item) == Bind(Split(o.sep, PyStr(item), <<>>), LAMBDA raw :
                            [i \in 1..Len(raw) |-> Strip(raw[i])])
    IN  Bind(ToList([notempty |-> FALSE], value), LAMBDA items :
            IF items.exc # "" THEN items
            ELSE Bind(SelectSeq(Concat([i \in 1..Len(items.val.xs) |->
                                           pieces(items.val.xs[i])]),
                                NonEmptySeq),
                      LAMBDA kept :
                         IF Opt(o, "notempty", TRUE) /\ kept = <<>>
                         THEN Ok(None)
                         ELSE Ok(List([i \in 1..Len(kept) |-> Str(kept[i])]))))

\* the last index whose element is true, 0 when there is none
RECURSIVE LastTrue(_, _)
LastTrue(xs, index) ==
    IF index = 0 THEN 0
    ELSE IF ~Falsy(xs[index]) THEN index
    ELSE LastTrue(xs, index - 1)

\* a filter that returns the iterable as it is
RStrip_keep(o, value) == [exc |-> "", val |-> value]

RStrip(o, value) ==
    IF ~(IsSeq(value) \/ value.t = "str") THEN Raise("SkipTagError")
    ELSE IF value.t = "str"
    THEN (IF value.s = <<>> THEN Raise("SkipTagError") ELSE Ok(value))
    ELSE Bind(LastTrue(value.xs, Len(value.xs)), LAMBDA index :
             IF index = 0 THEN Raise("SkipTagError")
             ELSE Ok([value EXCEPT !.xs = SubSeq(value.xs, 1, index)]))

Year(o, value) ==
    IF value.t = "stamp" /\ value.year > 0 THEN Ok(Num(value.year))
    ELSE Ok(None)

----------------------------------------------------------------------------
(* Native tag keys, as strings of characters.  In the MP4 keys "@" stands  *)
(* for the byte \xa9; the two "----:" keys are freeform atoms.             *)

\* ID3 frame ids (and the hash key COMM:description)
ID3Key == [
    APIC |-> <<"A", "P", "I", "C">>,
    TALB |-> <<"T", "A", "L", "B">>,
    TDRC |-> <<"T", "D", "R", "C">>,
    TDOR |-> <<"T", "D", "O", "R">>,
    GRP1 |-> <<"G", "R", "P", "1">>,
    TIT1 |-> <<"T", "I", "T", "1">>,
    TIT2 |-> <<"T", "I", "T", "2">>,
    TPE1 |-> <<"T", "P", "E", "1">>,
    TPE2 |-> <<"T", "P", "E", "2">>,
    TCOM |-> <<"T", "C", "O", "M">>,
    TCON |-> <<"T", "C", "O", "N">>,
    TPUB |-> <<"T", "P", "U", "B">>,
    COMM |-> <<"C", "O", "M", "M">>,
    TSOA |-> <<"T", "S", "O", "A">>,
    TRCK |-> <<"T", "R", "C", "K">>,
    TPOS |-> <<"T", "P", "O", "S">>,
    TCOP |-> <<"T", "C", "O", "P">>,
    TOWN |-> <<"T", "O", "W", "N">>,
    TPRO |-> <<"T", "P", "R", "O">>,
    USLT |-> <<"U", "S", "L", "T">>,
    TMOO |-> <<"T", "M", "O", "O">>,
    PCNT |-> <<"P", "C", "N", "T">>,
    POPM |-> <<"P", "O", "P", "M">>,
    WOAR |-> <<"W", "O", "A", "R">>,
    TXXX |-> <<"T", "X", "X", "X">>,
    TENC |-> <<"T", "E", "N", "C">>,
    COMM_description |-> <<"C", "O", "M", "M", ":", "d", "e", "s", "c", "r", "i", "p", "t", "i", "o", "n">> ]

\* MP4 atom names
MP4Key == [
    covr |-> <<"c", "o", "v", "r">>,
    alb |-> <<"@", "a", "l", "b">>,
    day |-> <<"@", "d", "a", "y">>,
    grp |-> <<"@", "g", "r", "p">>,
    nam |-> <<"@", "n", "a", "m">>,
    ART |-> <<"@", "A", "R", "T">>,
    aART |-> <<"a", "A", "R", "T">>,
    wrt |-> <<"@", "w", "r", "t">>,
    gen |-> <<"@", "g", "e", "n">>,
    cmt |-> <<"@", "c", "m", "t">>,
    trkn |-> <<"t", "r", "k", "n">>,
    disk |-> <<"d", "i", "s", "k">>,
    soal |-> <<"s", "o", "a", "l">>,
    cprt |-> <<"c", "p", "r", "t">>,
    lyr |-> <<"@", "l", "y", "r">>,
    too |-> <<"@", "t", "o", "o">>,
    LICENSE |-> <<"-", "-", "-", "-", ":", "L", "I", "C", "E", "N", "S", "E">>,
    MOOD |-> <<"-", "-", "-", "-", ":", "M", "O", "O", "D">> ]

\* Vorbis comment field names
OggKey == [
    metadata_block_picture |-> <<"m", "e", "t", "a", "d", "a", "t", "a", "_", "b", "l", "o", "c", "k", "_", "p", "i", "c", "t", "u", "r", "e">>,
    album |-> <<"a", "l", "b", "u", "m">>,
    date |-> <<"d", "a", "t", "e">>,
    originaldate |-> <<"o", "r", "i", "g", "i", "n", "a", "l", "d", "a", "t", "e">>,
    grouping |-> <<"g", "r", "o", "u", "p", "i", "n", "g">>,
    title |-> <<"t", "i", "t", "l", "e">>,
    artist |-> <<"a", "r", "t", "i", "s", "t">>,
    albumartist |-> <<"a", "l", "b", "u", "m", "a", "r", "t", "i", "s", "t">>,
    composer |-> <<"c", "o", "m", "p", "o", "s", "e", "r">>,
    genre |-> <<"g", "e", "n", "r", "e">>,
    label |-> <<"l", "a", "b", "e", "l">>,
    comment |-> <<"c", "o", "m", "m", "e", "n", "t">>,
    albumsort |-> <<"a", "l", "b", "u", "m", "s", "o", "r", "t">>,
    tracknumber |-> <<"t", "r", "a", "c", "k", "n", "u", "m", "b", "e", "r">>,
    tracktotal |-> <<"t", "r", "a", "c", "k", "t", "o", "t", "a", "l">>,
    discnumber |-> <<"d", "i", "s", "c", "n", "u", "m", "b", "e", "r">>,
    disctotal |-> <<"d", "i", "s", "c", "t", "o", "t", "a", "l">>,
    copyright |-> <<"c", "o", "p", "y", "r", "i", "g", "h", "t">>,
    license |-> <<"l", "i", "c", "e", "n", "s", "e">>,
    mood |-> <<"m", "o", "o", "d">>,
    rating |-> <<"r", "a", "t", "i", "n", "g">>,
    contact |-> <<"c", "o", "n", "t", "a", "c", "t">>,
    website |-> <<"w", "e", "b", "s", "i", "t", "e">>,
    lyrics |-> <<"l", "y", "r", "i", "c", "s">>,
    encoder |-> <<"e", "n", "c", "o", "d", "e", "r">> ]

Colon == <<":">>
LangXXX == <<"X", "X", "X">>
description == <<"d", "e", "s", "c", "r", "i", "p", "t", "i", "o", "n">>

----------------------------------------------------------------------------
(* Filters that build or open format-specific values. *)

\* mutagen.id3.ID3TimeStamp(text): the year is the leading number
ID3TimeStamp(text) ==
    Bind(ParseInt(text), LAMBDA r :
        [t |-> "stamp", text |-> text, year |-> IF r.ok THEN r.n ELSE 0])

TimeStampFrames == {ID3Key.TDRC, ID3Key.TDOR}

\* a Mutagen text frame: cls(text=..., desc=...)
Frame(cls, text, desc) ==
    [t |-> "frame", cls |-> cls, desc |-> desc, lang |-> LangXXX,
     text |-> IF cls \in TimeStampFrames
              THEN [i \in 1..Len(text) |-> ID3TimeStamp(text[i].s)]
              ELSE text]

ID3In(o, value) ==
    Bind(IF value.t = "list" THEN value.xs ELSE <<value>>, LAMBDA text :
        IF \E i \in 1..Len(text) : text[i].t # "str" THEN Raise("TypeError")
        ELSE Ok(Frame(o.cls, text, Opt(o, "desc", <<>>))))

\* Frame.HashKey
HashKey(frame) ==
    IF frame.t = "apic" THEN ID3Key.APIC \o Colon \o frame.desc
    ELSE IF frame.cls = ID3Key.COMM
    THEN ID3Key.COMM \o Colon \o frame.desc \o Colon \o frame.lang
    ELSE frame.cls

Apic(type, desc, data) ==
    [t |-> "apic", type |-> type, desc |-> desc, data |-> data,
     mime |-> Mime(data.format)]

Picture(type, desc, data) ==
    [t |-> "picture", type |-> type, desc |-> desc, data |-> data,
     mime |-> Mime(data.format)]

MP4Cover(data, imageformat) ==
    [t |-> "mp4cover", data |-> data, imageformat |-> imageformat]

\* base64.b64encode(picture.write()).decode('ascii')
B64(picture) == [t |-> "b64", picture |-> picture]

VorbisCover(o, value) ==
    IF value.t = "b64" THEN Ok(value.picture) ELSE Ok(None)

\* the value a picture filter works on: bytes are opened as an image first
OpenCover(value) ==
    IF IsBytes(value) THEN ImageStream_from_file(value) ELSE Ok(value)

ToApic(o, value) ==
    Bind(OpenCover(value), LAMBDA img :
        IF img.exc = "AttributeError" THEN Raise("SkipTagError")
        ELSE IF img.exc # "" THEN img
        ELSE IF img.val.t \notin {"image", "picture", "apic"}
        THEN Raise("SkipTagError")
        ELSE Ok(Apic(PictureType("COVER_FRONT"), <<>>, img.val.data)))

ToMp4Cover(o, value) ==
    Bind(OpenCover(value), LAMBDA img :
        IF img.exc = "AttributeError" THEN Raise("SkipTagError")
        ELSE IF img.exc # "" THEN img
        ELSE IF img.val.t # "image" THEN Raise("SkipTagError")
        ELSE Ok(MP4Cover(img.val.data,
                         IF img.val.format = "PNG" THEN 14 ELSE 13)))

ToVorbisCover(o, value) ==
    Bind(OpenCover(value), LAMBDA img :
        IF img.exc = "AttributeError" THEN Raise("SkipTagError")
        ELSE IF img.exc # "" THEN img
        ELSE IF img.val.t # "image" THEN Raise("SkipTagError")
        ELSE Ok(B64(Picture(PictureType("COVER_FRONT"), <<>>, img.val.data))))

\* AbstractFilter.__call__
run_filter(flt, value) ==
    CASE flt.f = "ID3In" -> ID3In(flt.o, value)
      [] flt.f = "ID3Out" -> ID3Out(flt.o, value)
      [] flt.f = "FirstItem" -> FirstItem(flt.o, value)
      [] flt.f = "ToInt" -> ToInt(flt.o, value)
      [] flt.f = "ToStr" -> ToStr(flt.o, value)
      [] flt.f = "ToList" -> ToList(flt.o, value)
      [] flt.f = "ToListFirstTuple" -> ToListFirstTuple(flt.o, value)
      [] flt.f = "SplitStr" -> SplitStr(flt.o, value)
      [] flt.f = "RStrip" -> RStrip(flt.o, value)
      [] flt.f = "Year" -> Year(flt.o, value)
      [] flt.f = "VorbisCover" -> VorbisCover(flt.o, value)
      [] flt.f = "ToApic" -> ToApic(flt.o, value)
      [] flt.f = "ToMp4Cover" -> ToMp4Cover(flt.o, value)
      [] flt.f = "ToVorbisCover" -> ToVorbisCover(flt.o, value)

\* AbstractMapRule._filter
RECURSIVE _filter(_, _)
_filter(filters, value) ==
    IF filters = <<>> THEN Ok(value)
    ELSE Bind(run_filter(Head(filters), value), LAMBDA r :
             IF r.exc # "" THEN r
             ELSE IF IsNone(r.val) THEN Raise("SkipTagError")
             ELSE _filter(Tail(filters), r.val))

----------------------------------------------------------------------------
(* Dictionaries.  A Python dict is the sequence of its items [k, v] in     *)
(* insertion order, with no key twice.  A container is [kind, d] with kind *)
(* one of "ID3" (mutagen.id3.ID3Tags), "MP4" (mutagen.mp4.MP4Tags),        *)
(* "Vorbis" (mutagen._vorbis.VCommentDict) and "Metadata"                  *)
(* (booktag.streams.Metadata).                                             *)

Item(k, v) == [k |-> k, v |-> v]
Keys(d) == {d[i].k : i \in 1..Len(d)}
Has(d, k) == \E i \in 1..Len(d) : d[i].k = k
Get(d, k) == IF Has(d, k) THEN d[CHOOSE i \in 1..Len(d) : d[i].k = k].v ELSE None

\* d[k] = v: an existing key keeps its place
Put(d, k, v) ==
    IF Has(d, k) THEN [i \in 1..Len(d) |-> IF d[i].k = k THEN Item(k, v) ELSE d[i]]
    ELSE Append(d, Item(k, v))

Remove(d, k) == LET keep(item) == item.k # k IN SelectSeq(d, keep)

\* the dict as a mapping, for comparisons that ignore item order
AsMap(d) == [k \in Keys(d) |-> Get(d, k)]

StartsWith(s, prefix) ==
    Len(s) >= Len(prefix) /\ SubSeq(s, 1, Len(prefix)) = prefix

Container(kind, d) == [kind |-> kind, d |-> d]

\* hasattr(target, 'add') / hasattr(source, 'getall'): ID3Tags only.
\* Metadata.__getattr__ raises AttributeError for a name that is no key.
HasAdd(c) == c.kind = "ID3"
HasGetall(c) == c.kind = "ID3"

\* ID3Tags.getall(key)
getall(d, key) ==
    IF Has(d, key) THEN <<Get(d, key)>>
    ELSE LET under(item) == StartsWith(item.k, key \o Colon)
         IN  Bind(SelectSeq(d, under), LAMBDA items :
                 [i \in 1..Len(items) |-> items[i].v])

\* ID3Tags.delall(key)
delall(d, key) ==
    LET keep(item) == item.k # key /\ ~StartsWith(item.k, key \o Colon)
    IN  SelectSeq(d, keep)

\* a del that empties the container
DelItem_clear(c, key) == [exc |-> "", d |-> <<>>]

\* del target[key]: [exc, d]
DelItem(c, key) ==
    CASE c.kind = "Metadata" -> [exc |-> "", d |-> Remove(c.d, key)]
      [] c.kind = "ID3" ->
            [exc |-> "",
             d |-> IF Has(c.d, key) THEN Remove(c.d, key) ELSE delall(c.d, key)]
      [] OTHER ->
            IF Has(c.d, key) THEN [exc |-> "", d |-> Remove(c.d, key)]
            ELSE [exc |-> "KeyError", d |-> c.d]

----------------------------------------------------------------------------
(* Metadata (booktag/streams.py). *)

StrTags == {"album", "comment", "grouping", "label", "title"}
ListTags == {"albumartist", "artist", "composer", "genre"}
IntTags == {"albumsort", "date", "discnum", "disctotal", "originaldate",
            "tracknum", "tracktotal"}
COVER == "cover"
TagNames == StrTags \cup ListTags \cup IntTags \cup {COVER}

_list_frame(value) ==
    IF IsSeq(value) THEN Ok(List(value.xs)) ELSE Ok(List(<<value>>))

\* a coercion that lets negative numbers through
_natural_int_any(value) ==
    Bind(PyInt(value), LAMBDA r :
        IF ~r.ok
        THEN Raise(IF value.t = "str" THEN "ValueError" ELSE "TypeError")
        ELSE IF r.n = 0 THEN Ok(None)
        ELSE Ok(Num(r.n)))

_natural_int(value) ==
    Bind(PyInt(value), LAMBDA r :
        IF ~r.ok
        THEN Raise(IF value.t = "str" THEN "ValueError" ELSE "TypeError")
        ELSE IF r.n = 0 THEN Ok(None)
        ELSE IF r.n < 0 THEN Raise("ValueError")
        ELSE Ok(Num(r.n)))

\* a table with no normalizer at all
mapping_raw(key, value) == Ok(value)

\* Metadata.mapping[key](value)
mapping(key, value) ==
    CASE key \in StrTags -> Ok(Str(PyStr(value)))
      [] key \in ListTags -> _list_frame(value)
      [] key \in IntTags -> _natural_int(value)
      [] OTHER -> Ok(value)

\* an assignment that stores whatever the normalizer returns
Metadata_setitem_keep(d, key, value) ==
    Bind(IF IsNone(value) THEN Ok(value) ELSE mapping(key, value), LAMBDA r :
        IF r.exc # "" THEN [exc |-> r.exc, d |-> d]
        ELSE [exc |-> "", d |-> Put(d, key, r.val)])

\* Metadata.__setitem__(key, value): [exc, d]
Metadata_setitem(d, key, value) ==
    Bind(IF IsNone(value) THEN Ok(value) ELSE mapping(key, value), LAMBDA r :
        IF r.exc # "" THEN [exc |-> r.exc, d |-> d]
        ELSE IF IsNone(r.val) THEN [exc |-> "", d |-> Remove(d, key)]
        ELSE [exc |-> "", d |-> Put(d, key, r.val)])

\* Metadata.__setattr__(name, value): d.name = value -> d[name] = value
Metadata_setattr(d, name, value) == Metadata_setitem(d, name, value)

\* Metadata.__delitem__(key): a missing key is not an error
Metadata_delitem(d, key) == [exc |-> "", d |-> Remove(d, key)]

\* Metadata.update(data): the items are assigned in order; an exception
\* leaves the earlier assignments in place
RECURSIVE Metadata_update(_, _)
Metadata_update(d, data) ==
    IF data = <<>> THEN [exc |-> "", d |-> d]
    ELSE Bind(Metadata_setitem(d, Head(data)[1], Head(data)[2]), LAMBDA r :
             IF r.exc # "" THEN r ELSE Metadata_update(r.d, Tail(data)))

\* an assignment that extends the list stored under the key
SetItem_extend(c, key, value) ==
    IF c.kind = "Metadata" THEN Metadata_setitem(c.d, key, value)
    ELSE Bind(Get(c.d, key), LAMBDA old :
             [exc |-> "",
              d |-> IF old.t = "list" /\ value.t = "list"
                    THEN Put(c.d, key, List(old.xs \o value.xs))
                    ELSE Put(c.d, key, value)])

\* target[key] = value: [exc, d]
SetItem(c, key, value) ==
    CASE c.kind = "Metadata" -> Metadata_setitem(c.d, key, value)
      [] c.kind = "Vorbis" ->
            [exc |-> "",
             d |-> Append(Remove(c.d, key),
                          Item(key, IF value.t = "list" THEN value
                                    ELSE List(<<value>>)))]
      [] OTHER -> [exc |-> "", d |-> Put(c.d, key, value)]

\* ID3Tags.add(frame): [exc, d]
AddFrame(c, value) ==
    IF value.t \in {"frame", "apic"}
    THEN [exc |-> "", d |-> Put(c.d, HashKey(value), value)]
    ELSE [exc |-> "TypeError", d |-> c.d]

----------------------------------------------------------------------------
(* Rules (AbstractMapRule subclasses).  Running a rule gives [exc, d]: the *)
(* exception that leaves run() ("" for a normal return) and the target's   *)
(* dict afterwards.                                                        *)

\* AbstractMapRule.get_tag
get_tag(source, key) ==
    Bind(Get(source.d, key), LAMBDA value :
        IF IsNone(value) THEN Raise("SkipTagError") ELSE Ok(value))

\* what a rule or one of its steps gives: the exception that left it, the
\* target dict, and the records it wrote with logger.exception
Result(exc, d) == [exc |-> exc, d |-> d, faults |-> <<>>]

\* the record of logger.exception in set_tag: type(target).__name__, key
\* and value
Fault(target, key, value) == [target |-> target.kind, key |-> key, value |-> value]

\* r, after the records written before it
After(faults, r) == [r EXCEPT !.faults = faults \o @]

\* a set_tag that passes the container's TypeError or ValueError on
set_tag_raises(target, key, value) ==
    Bind(IF IsNone(value) THEN DelItem(target, key)
         ELSE IF HasAdd(target) THEN AddFrame(target, value)
         ELSE SetItem(target, key, value),
         LAMBDA r :
            IF r.exc = "KeyError" THEN Result("", r.d) ELSE Result(r.exc, r.d))

\* AbstractMapRule.set_tag
set_tag(target, key, value) ==
    Bind(IF IsNone(value) THEN DelItem(target, key)
         ELSE IF HasAdd(target) THEN AddFrame(target, value)
         ELSE SetItem(target, key, value),
         LAMBDA r :
            IF r.exc = "KeyError" THEN Result("", r.d)
            ELSE IF r.exc \in {"TypeError", "ValueError"}
            THEN [exc |-> "SkipTagError", d |-> r.d,
                  faults |-> <<Fault(target, key, value)>>]
            ELSE Result(r.exc, r.d))

\* MoveTag._execute
MoveTag_execute(rule, source, target) ==
    Bind(get_tag(source, rule.from), LAMBDA g :
        IF g.exc # "" THEN Result(g.exc, target.d)
        ELSE Bind(_filter(rule.filters, g.val), LAMBDA f :
                 IF f.exc # "" THEN Result(f.exc, target.d)
                 ELSE set_tag(target, rule.to, f.val)))

\* a run that lets the skip out of the rule and leaves the target alone
MoveTag_run_raises(rule, target, r) == r

\* MoveTag.run around a given _execute result
MoveTag_run(rule, target, r) ==
    IF r.exc = "SkipTagError"
    THEN After(r.faults, set_tag(Container(target.kind, r.d), rule.to, None))
    ELSE r

\* one turn of the loop of PairTag.run
PairTag_set(target, target_key, index_value) ==
    Bind(set_tag(target, target_key,
                 ToInt([notzero |-> FALSE], index_value).val),
         LAMBDA s :
            IF s.exc = "SkipTagError"
            THEN After(s.faults, Result("", target.d))
            ELSE s)

\* the loop of PairTag.run over zip(self._to, value)
RECURSIVE PairTag_loop(_, _, _)
PairTag_loop(target, keys, value) ==
    IF keys = <<>> THEN Result("", target.d)
    ELSE Bind(PairTag_set(target, Head(keys), Head(value)), LAMBDA s :
             IF s.exc # "" THEN s
             ELSE After(s.faults,
                        PairTag_loop(Container(target.kind, s.d), Tail(keys),
                                     Tail(value))))

\* PairTag.run
PairTag_run(rule, source, target) ==
    Bind(get_tag(source, rule.from), LAMBDA g :
        IF g.exc # "" THEN Result(g.exc, target.d)
        ELSE Bind(_filter(rule.filters, g.val), LAMBDA f :
                 IF f.exc # "" THEN Result(f.exc, target.d)
                 ELSE IF f.val.t # "list"
                 THEN Result("TypeError", target.d)
                 ELSE PairTag_loop(target, rule.to,
                                   f.val.xs \o <<None, None>>)))

\* one turn of the loop of ToPairTag._execute: the index value, or skip
ToPairTag_index(source, source_key) ==
    Bind(get_tag(source, source_key), LAMBDA g :
        IF g.exc # "" THEN g
        ELSE Bind(ToInt([notzero |-> TRUE, positive |-> TRUE], g.val),
                  LAMBDA v :
                     IF IsNone(v.val) THEN Raise("SkipTagError") ELSE v))

\* an _execute that takes a numerator it cannot use as zero
ToPairTag_execute_zero(rule, source, target) ==
    Bind([i \in 1..2 |-> ToPairTag_index(source, rule.from[i])], LAMBDA v :
        Bind(_filter(rule.filters,
                     List([i \in 1..2 |-> IF v[i].exc = "" THEN v[i].val
                                          ELSE Num(0)])),
             LAMBDA f :
                IF f.exc # "" THEN Result(f.exc, target.d)
                ELSE set_tag(target, rule.to, f.val)))

\* ToPairTag._execute
ToPairTag_execute(rule, source, target) ==
    Bind([i \in 1..2 |-> ToPairTag_index(source, rule.from[i])], LAMBDA v :
        IF v[1].exc # "" THEN Result(v[1].exc, target.d)
        ELSE IF v[2].exc \notin {"", "SkipTagError"}
        THEN Result(v[2].exc, target.d)
        ELSE Bind(_filter(rule.filters,
                          List(<<v[1].val,
                                 IF v[2].exc = "SkipTagError" THEN Num(0)
                                 ELSE v[2].val>>)),
                  LAMBDA f :
                     IF f.exc # "" THEN Result(f.exc, target.d)
                     ELSE set_tag(target, rule.to, f.val)))

\* one turn of the loop of AlbumsortTag._execute: the candidate, or skip
AlbumsortTag_candidate(source, source_key) ==
    Bind(get_tag(source, source_key), LAMBDA g :
        IF g.exc # "" THEN g
        ELSE Bind(ToStr([notempty |-> TRUE], g.val), LAMBDA v :
                 IF IsNone(v.val) THEN Raise("SkipTagError") ELSE v))

\* an _execute that goes on without a grouping
AlbumsortTag_execute_any(rule, source, target) ==
    Bind([i \in 1..3 |->
             AlbumsortTag_candidate(source,
                                    <<"grouping", "albumsort", "album">>[i])],
         LAMBDA cand :
            Bind(SelectSeq(cand, LAMBDA c : c.exc = ""), LAMBDA value :
                IF Len(value) = 1 THEN Result("SkipTagError", target.d)
                ELSE Bind(_filter(rule.filters,
                                  ToStr([notempty |-> TRUE],
                                        List([i \in 1..Len(value) |->
                                                 value[i].val])).val),
                          LAMBDA f :
                             IF f.exc # "" THEN Result(f.exc, target.d)
                             ELSE set_tag(target, rule.to, f.val))))

\* AlbumsortTag._execute
AlbumsortTag_execute(rule, source, target) ==
    Bind([i \in 1..3 |->
             AlbumsortTag_candidate(source,
                                    <<"grouping", "albumsort", "album">>[i])],
         LAMBDA cand :
            IF cand[1].exc # "" THEN Result(cand[1].exc, target.d)
            ELSE Bind(SelectSeq(cand, LAMBDA c : c.exc = ""), LAMBDA value :
                IF Len(value) = 1 THEN Result("SkipTagError", target.d)
                ELSE Bind(_filter(rule.filters,
                                  ToStr([notempty |-> TRUE],
                                        List([i \in 1..Len(value) |->
                                                 value[i].val])).val),
                          LAMBDA f :
                             IF f.exc # "" THEN Result(f.exc, target.d)
                             ELSE set_tag(target, rule.to, f.val))))

----------------------------------------------------------------------------
(* Picture rules (AbstractPictureRule subclasses). *)

\* AbstractPictureRule.get_tag: the value, [] for a missing or false one
picture_get_tag(source, key, silent) ==
    IF HasGetall(source)
    THEN Bind(getall(source.d, key), LAMBDA value :
             IF value = <<>> /\ ~silent THEN Raise("SkipTagError")
             ELSE Ok(List(value)))
    ELSE Bind(Get(source.d, key), LAMBDA stored :
             Bind(Truth(stored), LAMBDA b :
                 IF b.exc # "" THEN Raise(b.exc)
                 ELSE IF b.val THEN Ok(stored)
                 ELSE IF ~silent THEN Raise("SkipTagError")
                 ELSE Ok(List(<<>>))))

\* getattr(pic, 'type', getattr(pic, 'imageformat', PictureType.COVER_FRONT))
PicType(pic) ==
    IF pic.t \in {"apic", "picture"} THEN pic.type
    ELSE IF pic.t = "mp4cover" THEN pic.imageformat
    ELSE PictureType("COVER_FRONT")

\* getattr(pic, 'data', pic)
PicData(pic) == IF pic.t \in {"apic", "picture", "image"} THEN pic.data ELSE pic

\* pictures.sort(key=lambda x: weights.get(x[0], 0), reverse=True): the sort
\* is stable, so equal weights keep their input order
RECURSIVE SortByWeight(_)
SortByWeight(pictures) ==
    IF pictures = <<>> THEN <<>>
    ELSE Bind([i \in 1..Len(pictures) |-> Weight(pictures[i][1])], LAMBDA w :
             Bind(CHOOSE i \in 1..Len(pictures) :
                      /\ \A j \in 1..Len(pictures) : w[j] <= w[i]
                      /\ \A j \in 1..(i - 1) : w[j] < w[i],
                  LAMBDA best :
                     <<pictures[best]>> \o
                     SortByWeight(SubSeq(pictures, 1, best - 1) \o
                                  SubSeq(pictures, best + 1, Len(pictures)))))

\* AbstractPictureRule._embedded_iter: [exc, val], val the picture data in
\* the order they are yielded
_embedded_iter(rule, tagcontainer, tagkey) ==
    Bind(picture_get_tag(tagcontainer, tagkey, TRUE), LAMBDA got :
        IF got.exc # "" THEN [exc |-> got.exc, val |-> <<>>]
        ELSE Bind(IF IsSeq(got.val) THEN got.val.xs ELSE <<got.val>>,
                  LAMBDA pics :
            Bind([i \in 1..Len(pics) |-> _filter(rule.filters, pics[i])],
                 LAMBDA filtered :
                IF \E i \in 1..Len(filtered) :
                       filtered[i].exc \notin {"", "SkipTagError"}
                THEN [exc |-> (filtered[CHOOSE i \in 1..Len(filtered) :
                                  /\ filtered[i].exc \notin {"", "SkipTagError"}
                                  /\ \A j \in 1..(i - 1) :
                                         filtered[j].exc \in
                                             {"", "SkipTagError"}]).exc,
                      val |-> <<>>]
                ELSE Bind(SelectSeq(filtered, LAMBDA r : r.exc = ""),
                          LAMBDA kept :
                    Bind(SortByWeight([i \in 1..Len(kept) |->
                                          <<PicType(kept[i].val),
                                            PicData(kept[i].val)>>]),
                         LAMBDA sorted :
                            [exc |-> "",
                             val |-> [i \in 1..Len(sorted) |->
                                         sorted[i][2]]])))))

\* what `except (AttributeError, exceptions.NotAnImageFileError)` does with
\* a raised exception: evaluating the tuple looks the class up on the
\* exceptions module, which itself raises when the class is not defined
ExceptPictureErrors(exc) ==
    IF exceptions("NotAnImageFileError") # "NotAnImageFileError"
    THEN [caught |-> FALSE, exc |-> exceptions("NotAnImageFileError")]
    ELSE IF exc \in {"AttributeError", "NotAnImageFileError"}
    THEN [caught |-> TRUE, exc |-> ""]
    ELSE [caught |-> FALSE, exc |-> exc]

\* the loop of PictureOut._execute over the yielded pictures
RECURSIVE PictureOut_loop(_, _)
PictureOut_loop(pictures, target) ==
    IF pictures = <<>> THEN Result("", target.d)
    ELSE Bind(ImageStream_from_file(Head(pictures)), LAMBDA img :
        Bind(IF img.exc # "" THEN Result(img.exc, target.d)
             ELSE set_tag(target, COVER, img.val),
             LAMBDA s :
                IF s.exc = "" THEN s
                ELSE Bind(ExceptPictureErrors(s.exc), LAMBDA handler :
                         IF handler.caught
                         THEN PictureOut_loop(Tail(pictures), target)
                         ELSE After(s.faults,
                                    Result(handler.exc, target.d)))))

\* PictureOut._execute
PictureOut_execute(rule, source, target) ==
    Bind(_embedded_iter(rule, source, rule.key), LAMBDA it :
        IF it.exc # "" THEN Result(it.exc, target.d)
        ELSE PictureOut_loop(it.val, target))

\* the embedded pictures PictureIn removes: those with a desc attribute
HasDesc(x) == x.t \in {"apic", "picture", "frame"}

RECURSIVE PictureIn_clear(_, _, _)
PictureIn_clear(embedded, target, to_key) ==
    IF embedded = <<>> THEN target.d
    ELSE PictureIn_clear(
            Tail(embedded),
            Container(target.kind,
                      set_tag(target, to_key \o Colon \o Head(embedded).desc,
                              None).d),
            to_key)

\* an _execute that removes the described pictures whether or not there is
\* a cover to insert
PictureIn_execute_clears(rule, source, target) ==
    Bind(picture_get_tag(target, rule.key, TRUE), LAMBDA embedded :
        Result("", PictureIn_clear(
                       SelectSeq(IF IsSeq(embedded.val) THEN embedded.val.xs
                                 ELSE <<>>, HasDesc),
                       target, rule.key)))

\* PictureIn._execute
PictureIn_execute(rule, source, target) ==
    Bind(picture_get_tag(source, COVER, TRUE), LAMBDA cover :
        IF cover.exc # "" THEN Result(cover.exc, target.d)
        ELSE Bind(Truth(cover.val), LAMBDA b :
            IF b.exc # "" THEN Result(b.exc, target.d)
            ELSE IF ~b.val THEN Result("", target.d)
            ELSE Bind(picture_get_tag(target, rule.key, TRUE),
                      LAMBDA embedded :
                IF embedded.exc # ""
                THEN Result(embedded.exc, target.d)
                ELSE Bind(Container(
                              target.kind,
                              PictureIn_clear(
                                  SelectSeq(IF IsSeq(embedded.val)
                                            THEN embedded.val.xs ELSE <<>>,
                                            HasDesc),
                                  target, rule.key)),
                          LAMBDA cleared :
                    Bind(_filter(rule.filters, cover.val), LAMBDA f :
                        IF f.exc # "" THEN Result(f.exc, cleared.d)
                        ELSE set_tag(cleared, rule.key, f.val))))))

\* the rule's _execute (for a PairTag, which overrides run, its run)
_execute(rule, source, target) ==
    CASE rule.kind = "MoveTag" -> MoveTag_execute(rule, source, target)
      [] rule.kind = "PairTag" -> PairTag_run(rule, source, target)
      [] rule.kind = "ToPairTag" -> ToPairTag_execute(rule, source, target)
      [] rule.kind = "AlbumsortTag" -> AlbumsortTag_execute(rule, source, target)
      [] rule.kind = "PictureIn" -> PictureIn_execute(rule, source, target)
      [] rule.kind = "PictureOut" -> PictureOut_execute(rule, source, target)

\* AbstractMapRule.__call__, i.e. run, around the result r of _execute
run_rule(rule, target, r) ==
    IF rule.kind \in {"MoveTag", "ToPairTag"} THEN MoveTag_run(rule, target, r)
    ELSE r

----------------------------------------------------------------------------
(* Regular expressions of the drop groups.  A pattern is [bol, eol, atoms]: *)
(* anchored at the start (^), at the end ($), and the sequence of          *)
(* one-character atoms between: a literal, "." or [A-Z].                   *)

Lit(chars) == [i \in 1..Len(chars) |-> [cls |-> "lit", c |-> chars[i]]]
AnyChar == <<[cls |-> "any", c |-> "."]>>
Upper3 == [i \in 1..3 |-> [cls |-> "upper", c |-> "A"]]
Re(bol, atoms, eol) == [bol |-> bol, eol |-> eol, atoms |-> atoms]

AtomMatches(atom, c) ==
    CASE atom.cls = "any" -> TRUE
      [] atom.cls = "upper" -> c \in UpperCase
      [] OTHER -> c = atom.c

\* re.search(pattern, tagname) is not None
re_search(pattern, tagname) ==
    \E start \in 1..(Len(tagname) + 1) :
        LET stop == start + Len(pattern.atoms) - 1
        IN  /\ pattern.bol => start = 1
            /\ stop <= Len(tagname)
            /\ pattern.eol => stop = Len(tagname)
            /\ \A i \in 1..Len(pattern.atoms) :
                   AtomMatches(pattern.atoms[i], tagname[start + i - 1])

----------------------------------------------------------------------------
(* The mappings. *)

MoveTag(source_key, target_key, filters) ==
    [kind |-> "MoveTag", from |-> source_key, to |-> target_key,
     filters |-> filters]
PairTag(source_key, target_key0, target_key1, filters) ==
    [kind |-> "PairTag", from |-> source_key,
     to |-> <<target_key0, target_key1>>, filters |-> filters]
ToPairTag(source_key0, source_key1, target_key, filters) ==
    [kind |-> "ToPairTag", from |-> <<source_key0, source_key1>>,
     to |-> target_key, filters |-> filters]
AlbumsortTag(target_key, filters) ==
    [kind |-> "AlbumsortTag", to |-> target_key, filters |-> filters]
PictureIn(source_key, filters) ==
    [kind |-> "PictureIn", key |-> source_key, filters |-> filters]
PictureOut(source_key, filters) ==
    [kind |-> "PictureOut", key |-> source_key, filters |-> filters]

\* the filter instances the mappings are built from
F == [
    ID3Out |-> Flt("ID3Out", NoOpts),
    FirstItem |-> Flt("FirstItem", NoOpts),
    ToStr |-> Flt("ToStr", NoOpts),
    ToStrComma |-> Flt("ToStr", [sep |-> <<",", " ">>]),
    ToStrSlash |-> Flt("ToStr", [sep |-> <<"/">>]),
    ToList |-> Flt("ToList", NoOpts),
    ToListFirstTuple |-> Flt("ToListFirstTuple", NoOpts),
    ToIntNotzero |-> Flt("ToInt", [notzero |-> TRUE]),
    ToIntPositive |-> Flt("ToInt", [notzero |-> TRUE, positive |-> TRUE]),
    SplitNames |-> Flt("SplitStr", [sep |-> {",", "&", "/"}]),
    SplitGenres |-> Flt("SplitStr", [sep |-> {",", "/"}]),
    SplitPair |-> Flt("SplitStr", [sep |-> {"/"}, notempty |-> TRUE]),
    RStrip |-> Flt("RStrip", NoOpts),
    Year |-> Flt("Year", NoOpts) ]

F_ID3In(cls) == Flt("ID3In", [cls |-> cls])
F_ID3InComm == Flt("ID3In", [cls |-> ID3Key.COMM, desc |-> description])

MP3ReadMapping == <<
    PictureOut(ID3Key.APIC, <<>>),
    MoveTag(ID3Key.TALB, "album", <<F.ID3Out, F.ToStr>>),
    MoveTag(ID3Key.TDRC, "date", <<F.ID3Out, F.Year>>),
    MoveTag(ID3Key.TDOR, "originaldate", <<F.ID3Out, F.Year>>),
    MoveTag(ID3Key.TIT1, "grouping", <<F.ID3Out, F.ToStr>>),
    MoveTag(ID3Key.TIT2, "title", <<F.ID3Out, F.ToStr>>),
    MoveTag(ID3Key.TPE1, "artist", <<F.ID3Out, F.SplitNames>>),
    MoveTag(ID3Key.TPE2, "albumartist", <<F.ID3Out, F.SplitNames>>),
    MoveTag(ID3Key.TCOM, "composer", <<F.ID3Out, F.SplitNames>>),
    MoveTag(ID3Key.TCON, "genre", <<F.ID3Out, F.SplitGenres>>),
    MoveTag(ID3Key.TPUB, "label", <<F.ID3Out, F.ToStr>>),
    MoveTag(ID3Key.COMM_description, "comment", <<F.ID3Out, F.ToStr>>),
    PairTag(ID3Key.TRCK, "tracknum", "tracktotal",
            <<F.ID3Out, F.FirstItem, F.SplitPair>>),
    PairTag(ID3Key.TPOS, "discnum", "disctotal",
            <<F.ID3Out, F.FirstItem, F.SplitPair>>) >>

MP4ReadMapping == <<
    PictureOut(MP4Key.covr, <<>>),
    MoveTag(MP4Key.alb, "album", <<F.ToStr>>),
    MoveTag(MP4Key.day, "date", <<F.FirstItem, F.ToIntNotzero>>),
    MoveTag(MP4Key.grp, "grouping", <<F.ToStr>>),
    MoveTag(MP4Key.nam, "title", <<F.ToStr>>),
    MoveTag(MP4Key.ART, "artist", <<F.SplitNames>>),
    MoveTag(MP4Key.aART, "albumartist", <<F.SplitNames>>),
    MoveTag(MP4Key.wrt, "composer", <<F.SplitNames>>),
    MoveTag(MP4Key.gen, "genre", <<F.SplitGenres>>),
    MoveTag(MP4Key.cmt, "comment", <<F.ToStr>>),
    PairTag(MP4Key.trkn, "tracknum", "tracktotal", <<F.FirstItem, F.ToList>>),
    PairTag(MP4Key.disk, "discnum", "disctotal", <<F.FirstItem, F.ToList>>) >>

OggReadMapping == <<
    PictureOut(OggKey.metadata_block_picture, <<Flt("VorbisCover", NoOpts)>>),
    MoveTag(OggKey.album, "album", <<F.ToStr>>),
    MoveTag(OggKey.date, "date", <<F.FirstItem, F.ToIntNotzero>>),
    MoveTag(OggKey.originaldate, "originaldate", <<F.FirstItem, F.ToIntNotzero>>),
    MoveTag(OggKey.grouping, "grouping", <<F.ToStr>>),
    MoveTag(OggKey.title, "title", <<F.ToStr>>),
    MoveTag(OggKey.artist, "artist", <<F.SplitNames>>),
    MoveTag(OggKey.albumartist, "albumartist", <<F.SplitNames>>),
    MoveTag(OggKey.composer, "composer", <<F.SplitNames>>),
    MoveTag(OggKey.genre, "genre", <<F.SplitGenres>>),
    MoveTag(OggKey.label, "label", <<F.ToStr>>),
    MoveTag(OggKey.comment, "comment", <<F.ToStr>>),
    MoveTag(OggKey.tracknumber, "tracknum", <<F.FirstItem, F.ToIntNotzero>>),
    MoveTag(OggKey.tracktotal, "tracktotal", <<F.FirstItem, F.ToIntNotzero>>),
    MoveTag(OggKey.discnumber, "discnum", <<F.FirstItem, F.ToIntNotzero>>),
    MoveTag(OggKey.disctotal, "disctotal", <<F.FirstItem, F.ToIntNotzero>>) >>

\* Mapping(*rules, **useless)
Mapping(rules, useless) == [rules |-> rules, useless |-> useless]

\* a lookup that adds the patterns of the comment group to every group
get_useless_comment(m, namespace) ==
    (IF namespace \in DOMAIN m.useless THEN m.useless[namespace] ELSE <<>>)
    \o (IF "comment" \in DOMAIN m.useless THEN m.useless["comment"] ELSE <<>>)

\* Mapping.get_useless
get_useless(m, namespace) ==
    IF namespace \in DOMAIN m.useless THEN m.useless[namespace] ELSE <<>>

MP3WriteMapping == Mapping(<<
    PictureIn(ID3Key.APIC, <<Flt("ToApic", NoOpts)>>),
    MoveTag("album", ID3Key.TALB, <<F.ToStr, F.ToList, F_ID3In(ID3Key.TALB)>>),
    MoveTag("date", ID3Key.TDRC, <<F.ToIntPositive, F.ToStr, F_ID3In(ID3Key.TDRC)>>),
    MoveTag("originaldate", ID3Key.TDOR, <<F.ToIntPositive, F.ToStr, F_ID3In(ID3Key.TDOR)>>),
    MoveTag("grouping", ID3Key.GRP1, <<F.ToStr, F.ToList, F_ID3In(ID3Key.GRP1)>>),
    MoveTag("grouping", ID3Key.TIT1, <<F.ToStr, F.ToList, F_ID3In(ID3Key.TIT1)>>),
    MoveTag("title", ID3Key.TIT2, <<F.ToStr, F.ToList, F_ID3In(ID3Key.TIT2)>>),
    MoveTag("artist", ID3Key.TPE1, <<F.ToStrComma, F.ToList, F_ID3In(ID3Key.TPE1)>>),
    MoveTag("albumartist", ID3Key.TPE2, <<F.ToStrComma, F.ToList, F_ID3In(ID3Key.TPE2)>>),
    MoveTag("composer", ID3Key.TCOM, <<F.ToStrComma, F.ToList, F_ID3In(ID3Key.TCOM)>>),
    MoveTag("genre", ID3Key.TCON, <<F.ToStrComma, F.ToList, F_ID3In(ID3Key.TCON)>>),
    MoveTag("label", ID3Key.TPUB, <<F.ToStr, F.ToList, F_ID3In(ID3Key.TPUB)>>),
    MoveTag("comment", ID3Key.COMM_description, <<F.ToStr, F.ToList, F_ID3InComm>>),
    AlbumsortTag(ID3Key.TSOA, <<F.ToList, F_ID3In(ID3Key.TSOA)>>),
    ToPairTag("tracknum", "tracktotal", ID3Key.TRCK,
              <<F.RStrip, F.ToStrSlash, F.ToList, F_ID3In(ID3Key.TRCK)>>),
    ToPairTag("discnum", "disctotal", ID3Key.TPOS,
              <<F.RStrip, F.ToStrSlash, F.ToList, F_ID3In(ID3Key.TPOS)>>) >>,
    [comment |-> <<Re(TRUE, Lit(ID3Key.COMM), FALSE)>>,
     legal |-> <<Re(TRUE, Lit(ID3Key.TCOP), TRUE), Re(TRUE, Lit(ID3Key.TOWN), TRUE),
                 Re(TRUE, Lit(ID3Key.TPRO), TRUE)>>,
     lyrics |-> <<Re(TRUE, Lit(ID3Key.USLT), FALSE)>>,
     rating |-> <<Re(TRUE, Lit(ID3Key.TMOO), TRUE), Re(TRUE, Lit(ID3Key.PCNT), TRUE),
                  Re(TRUE, Lit(ID3Key.POPM), FALSE)>>,
     url |-> <<Re(TRUE, Lit(<<"W">>) \o Upper3, FALSE)>>,
     user |-> <<Re(TRUE, Lit(ID3Key.TXXX), FALSE)>>])

MP4WriteMapping == Mapping(<<
    PictureIn(MP4Key.covr, <<Flt("ToMp4Cover", NoOpts), F.ToList>>),
    MoveTag("album", MP4Key.alb, <<F.ToStr, F.ToList>>),
    MoveTag("date", MP4Key.day, <<F.ToIntNotzero, F.ToStr, F.ToList>>),
    MoveTag("grouping", MP4Key.grp, <<F.ToStr, F.ToList>>),
    MoveTag("title", MP4Key.nam, <<F.ToStr, F.ToList>>),
    MoveTag("artist", MP4Key.ART, <<F.ToStrComma, F.ToList>>),
    MoveTag("albumartist", MP4Key.aART, <<F.ToStrComma, F.ToList>>),
    MoveTag("composer", MP4Key.wrt, <<F.ToStrComma, F.ToList>>),
    MoveTag("genre", MP4Key.gen, <<F.ToStrComma, F.ToList>>),
    MoveTag("comment", MP4Key.cmt, <<F.ToStr, F.ToList>>),
    AlbumsortTag(MP4Key.soal, <<F.ToList>>),
    ToPairTag("tracknum", "tracktotal", MP4Key.trkn, <<F.ToListFirstTuple>>),
    ToPairTag("discnum", "disctotal", MP4Key.disk, <<F.ToListFirstTuple>>) >>,
    [comment |-> <<Re(TRUE, AnyChar \o Lit(<<"c", "m", "t">>), FALSE)>>,
     legal |-> <<Re(TRUE, Lit(MP4Key.cprt), TRUE),
                 Re(FALSE, Lit(<<"L", "I", "C", "E", "N", "S", "E">>), TRUE)>>,
     lyrics |-> <<Re(TRUE, AnyChar \o Lit(<<"l", "y", "r">>), TRUE)>>,
     rating |-> <<Re(FALSE, Lit(<<"M", "O", "O", "D">>), TRUE)>>])

OggWriteMapping == Mapping(<<
    PictureIn(OggKey.metadata_block_picture,
              <<Flt("ToVorbisCover", NoOpts), F.ToList>>),
    MoveTag("album", OggKey.album, <<F.ToStr, F.ToList>>),
    MoveTag("date", OggKey.date, <<F.ToIntNotzero, F.ToStr, F.ToList>>),
    MoveTag("grouping", OggKey.grouping, <<F.ToStr, F.ToList>>),
    MoveTag("title", OggKey.title, <<F.ToStr, F.ToList>>),
    MoveTag("artist", OggKey.artist, <<F.ToStrComma, F.ToList>>),
    MoveTag("albumartist", OggKey.albumartist, <<F.ToStrComma, F.ToList>>),
    MoveTag("composer", OggKey.composer, <<F.ToStrComma, F.ToList>>),
    MoveTag("genre", OggKey.genre, <<F.ToStrComma, F.ToList>>),
    MoveTag("label", OggKey.label, <<F.ToStr, F.ToList>>),
    MoveTag("comment", OggKey.comment, <<F.ToStr, F.ToList>>),
    AlbumsortTag(OggKey.albumsort, <<F.ToList>>),
    MoveTag("tracknum", OggKey.tracknumber, <<F.ToIntNotzero, F.ToStr, F.ToList>>),
    MoveTag("tracktotal", OggKey.tracktotal, <<F.ToIntNotzero, F.ToStr, F.ToList>>),
    MoveTag("discnum", OggKey.discnumber, <<F.ToIntNotzero, F.ToStr, F.ToList>>),
    MoveTag("disctotal", OggKey.disctotal, <<F.ToIntNotzero, F.ToStr, F.ToList>>) >>,
    [legal |-> <<Re(TRUE, Lit(OggKey.copyright), FALSE),
                 Re(TRUE, Lit(OggKey.license), FALSE)>>,
     rating |-> <<Re(TRUE, Lit(<<"m", "r", "a", "t">>), FALSE),
                  Re(TRUE, Lit(OggKey.mood), FALSE),
                  Re(TRUE, Lit(OggKey.rating), FALSE)>>,
     url |-> <<Re(TRUE, Lit(OggKey.contact), FALSE),
               Re(TRUE, Lit(OggKey.website), FALSE)>>,
     lyrics |-> <<Re(TRUE, Lit(OggKey.lyrics), FALSE)>>])

----------------------------------------------------------------------------
(* The translation engine: from_file and export. *)

Supported == {"MP3", "MP4", "OGG"}
Formats == Supported \cup {"FLAC"}

\* the class of audio.tags for each FileType
TagsKind(format) ==
    CASE format = "MP3" -> "ID3"
      [] format = "MP4" -> "MP4"
      [] OTHER -> "Vorbis"

\* _resolve_audiotype: [exc, read, write]
_resolve_audiotype(audiofile) ==
    CASE audiofile = "MP3" ->
            [exc |-> "", read |-> MP3ReadMapping, write |-> MP3WriteMapping]
      [] audiofile = "MP4" ->
            [exc |-> "", read |-> MP4ReadMapping, write |-> MP4WriteMapping]
      [] audiofile = "OGG" ->
            [exc |-> "", read |-> OggReadMapping, write |-> OggWriteMapping]
      [] OTHER ->
            [exc |-> exceptions("FileTypeNotSupportedError"),
             read |-> <<>>, write |-> Mapping(<<>>, <<>>)]

\* a _drop_tags that tries the first expression only
_drop_tags_first(target, regexps) ==
    LET keep(item) == regexps = <<>> \/ ~re_search(regexps[1], item.k)
    IN  SelectSeq(target, keep)

\* _drop_tags(target, *regexps): the dict without the matching keys
_drop_tags(target, regexps) ==
    LET keep(item) == ~\E i \in 1..Len(regexps) : re_search(regexps[i], item.k)
    IN  SelectSeq(target, keep)

\* a drop step that removes the legal group whatever the selection
drop_mandatory(target, m, namespaces) ==
    _drop_tags(target, get_useless(m, "legal"))

\* for namespace in settings.get('metadata.tags.drop', []): _drop_tags(...)
RECURSIVE drop_useless(_, _, _)
drop_useless(target, m, namespaces) ==
    IF namespaces = {} THEN target
    ELSE Bind(CHOOSE n \in namespaces : TRUE, LAMBDA namespace :
             drop_useless(_drop_tags(target, get_useless(m, namespace)), m,
                          namespaces \ {namespace}))

\* whether a SkipTagError was raised inside the rule (absorbed by
\* MoveTag.run or passed on to the caller's loop), given the result of
\* its _execute
RuleSkips(r) == r.exc = "SkipTagError"

\* a loop that lets every exception out of the rule end it
ends_loop(exc) == exc # ""

\* `try: rule(...) except SkipTagError: continue`: whether the exception
\* that left the rule ends the loop
leaves_loop(exc) == exc \notin {"", "SkipTagError"}

\* the loop `for rule in mapping: try: rule(source, target)
\* except SkipTagError: continue` of from_file and of export, from rule i on:
\* [exc, d, ran, skipped, faults], ran the indices of the rules run, in
\* order, faults the records the rules logged
RECURSIVE run_rules(_, _, _, _, _, _)
run_rules(rules, i, source, target, ran, skipped) ==
    IF i > Len(rules)
    THEN [exc |-> "", d |-> target.d, ran |-> ran, skipped |-> skipped,
          faults |-> <<>>]
    ELSE Bind(_execute(rules[i], source, target), LAMBDA e :
        Bind(run_rule(rules[i], target, e), LAMBDA r :
            Bind(IF RuleSkips(e) THEN skipped \cup {i} ELSE skipped,
                 LAMBDA sk :
                    IF ~leaves_loop(r.exc)
                    THEN After(r.faults,
                               run_rules(rules, i + 1, source,
                                         Container(target.kind, r.d),
                                         Append(ran, i), sk))
                    ELSE [exc |-> r.exc, d |-> r.d, ran |-> Append(ran, i),
                          skipped |-> sk, faults |-> r.faults])))

\* from_file(path): [exc, metadata, tags, ran, skipped, faults]; tags is
\* audio.tags when the call ends (the rules only read it)
from_file(audiofile, audiotags) ==
    Bind(_resolve_audiotype(audiofile), LAMBDA resolved :
        IF resolved.exc # ""
        THEN [exc |-> resolved.exc, metadata |-> <<>>, tags |-> audiotags,
              ran |-> <<>>, skipped |-> {}, faults |-> <<>>]
        ELSE Bind(run_rules(resolved.read, 1,
                            Container(TagsKind(audiofile), audiotags),
                            Container("Metadata", <<>>), <<>>, {}),
                  LAMBDA done :
                     [exc |-> done.exc, metadata |-> done.d,
                      tags |-> audiotags, ran |-> done.ran,
                      skipped |-> done.skipped, faults |-> done.faults]))

\* a call that ends without persisting anything
save_nothing(filetags, audiotags) == filetags

\* audio.save(): the tags the file holds afterwards
save(filetags, audiotags) == audiotags

\* export(path, metadata): [exc, dropped, tags, saved, ran, skipped, faults];
\* dropped is audio.tags after the drop step, tags is audio.tags at the end,
\* saved tells whether audio.save() was called
export(audiofile, audiotags, metadata, settings_drop) ==
    Bind(_resolve_audiotype(audiofile), LAMBDA resolved :
        IF resolved.exc # ""
        THEN [exc |-> resolved.exc, dropped |-> audiotags, tags |-> audiotags,
              saved |-> FALSE, ran |-> <<>>, skipped |-> {}, faults |-> <<>>]
        ELSE Bind(drop_useless(audiotags, resolved.write, settings_drop),
                  LAMBDA dropped :
            Bind(run_rules(resolved.write.rules, 1,
                           Container("Metadata", metadata),
                           Container(TagsKind(audiofile), dropped), <<>>, {}),
                 LAMBDA done :
                    [exc |-> done.exc, dropped |-> dropped, tags |-> done.d,
                     saved |-> done.exc = "", ran |-> done.ran,
                     skipped |-> done.skipped, faults |-> done.faults])))

----------------------------------------------------------------------------
(* The values the model draws. *)

JpegFront == Bytes(1, TRUE, "JPEG")      \* a JPEG picture
PngBack == Bytes(2, TRUE, "PNG")         \* a PNG picture
NotAnImage == Bytes(3, FALSE, "JPEG")    \* bytes PIL cannot identify

TextFrame(cls, chars) == Frame(cls, <<Str(chars)>>, <<>>)

\* tags a file may hold at the start, per format
SampleTags(format) ==
    CASE format = "MP3" -> <<
            Item(ID3Key.TALB, TextFrame(ID3Key.TALB, <<"a">>)),
            Item(ID3Key.TALB, TextFrame(ID3Key.TALB, <<" ">>)),
            Item(ID3Key.TPE1, TextFrame(ID3Key.TPE1, <<"x", "&", "y">>)),
            Item(ID3Key.TDRC, TextFrame(ID3Key.TDRC, <<"1", "9", "9", "9">>)),
            Item(ID3Key.COMM \o Colon \o description \o Colon \o LangXXX,
                 Frame(ID3Key.COMM, <<Str(<<"c">>)>>, description)),
            Item(ID3Key.TRCK, TextFrame(ID3Key.TRCK, <<"3", "/", "1", "2">>)),
            Item(ID3Key.APIC \o Colon,
                 Apic(ContainerPictureType("COVER_FRONT"), <<>>, JpegFront)),
            Item(ID3Key.APIC \o Colon \o <<"x">>,
                 Apic(ContainerPictureType("OTHER"), <<"x">>, NotAnImage)),
            Item(ID3Key.TCOP, TextFrame(ID3Key.TCOP, <<"c">>)) >>
      [] format = "MP4" -> <<
            Item(MP4Key.alb, List(<<Str(<<"a">>)>>)),
            Item(MP4Key.nam, List(<<Str(<<" ">>)>>)),
            Item(MP4Key.ART, List(<<Str(<<"x", ",", "y">>)>>)),
            Item(MP4Key.day, List(<<Str(<<"-", "5">>)>>)),
            Item(MP4Key.cmt, List(<<Str(<<"c">>)>>)),
            Item(MP4Key.trkn, List(<<Tuple(<<Num(3), Num(12)>>)>>)),
            Item(MP4Key.covr, List(<<MP4Cover(PngBack, 14)>>)),
            Item(MP4Key.covr, List(<<MP4Cover(NotAnImage, 13)>>)),
            Item(MP4Key.cprt, List(<<Str(<<"c">>)>>)) >>
      [] format = "OGG" -> <<
            Item(OggKey.album, List(<<Str(<<"a">>)>>)),
            Item(OggKey.title, List(<<Str(<<" ">>)>>)),
            Item(OggKey.artist, List(<<Str(<<"x">>), Str(<<"y", "/", "z">>)>>)),
            Item(OggKey.originaldate, List(<<Str(<<"1", "9", "8", "0">>)>>)),
            Item(OggKey.comment, List(<<Str(<<"c">>)>>)),
            Item(OggKey.tracktotal, List(<<Str(<<"x">>)>>)),
            Item(OggKey.metadata_block_picture,
                 List(<<B64(Picture(ContainerPictureType("COVER_FRONT"), <<>>,
                                    JpegFront))>>)),
            Item(OggKey.metadata_block_picture,
                 List(<<B64(Picture(ContainerPictureType("OTHER"), <<>>,
                                    NotAnImage))>>)),
            Item(OggKey.copyright, List(<<Str(<<"c">>)>>)) >>
      [] OTHER -> <<
            Item(OggKey.album, List(<<Str(<<"a">>)>>)),
            Item(OggKey.copyright, List(<<Str(<<"c">>)>>)) >>

\* a file that carries one tag of every drop group of its format
EveryDropGroup(format) ==
    CASE format = "MP3" -> <<
            Item(ID3Key.COMM \o Colon \o <<"n">> \o Colon \o LangXXX,
                 Frame(ID3Key.COMM, <<Str(<<"c">>)>>, <<"n">>)),
            Item(ID3Key.TCOP, TextFrame(ID3Key.TCOP, <<"c">>)),
            Item(ID3Key.USLT \o Colon \o Colon \o LangXXX, Frame(ID3Key.USLT, <<Str(<<"l">>)>>, <<>>)),
            Item(ID3Key.PCNT, TextFrame(ID3Key.PCNT, <<"1">>)),
            Item(ID3Key.WOAR, TextFrame(ID3Key.WOAR, <<"u">>)),
            Item(ID3Key.TXXX \o Colon \o <<"u">>, Frame(ID3Key.TXXX, <<Str(<<"v">>)>>, <<"u">>)) >>
      [] format = "MP4" -> <<
            Item(MP4Key.cmt, List(<<Str(<<"c">>)>>)),
            Item(MP4Key.LICENSE, List(<<Str(<<"c">>)>>)),
            Item(MP4Key.lyr, List(<<Str(<<"l">>)>>)),
            Item(MP4Key.MOOD, List(<<Str(<<"m">>)>>)) >>
      [] OTHER -> <<
            Item(OggKey.license, List(<<Str(<<"c">>)>>)),
            Item(OggKey.rating, List(<<Str(<<"5">>)>>)),
            Item(OggKey.website, List(<<Str(<<"u">>)>>)),
            Item(OggKey.lyrics, List(<<Str(<<"l">>)>>)) >>

UniqueKeys(d) == \A i, j \in 1..Len(d) : d[i].k = d[j].k => i = j

\* the items of s at the positions I, in the order of s
RECURSIVE Pick(_, _)
Pick(s, I) ==
    IF I = {} THEN <<>>
    ELSE LET m == CHOOSE i \in I : \A j \in I : j <= i
         IN  Append(Pick(s, I \ {m}), s[m])

SampleFiles(format) ==
    Bind(SampleTags(format), LAMBDA sample :
        {d \in {Pick(sample, I) :
                    I \in {J \in SUBSET (1..Len(sample)) :
                               Cardinality(J) <= MaxTags}} : UniqueKeys(d)})
    \cup {EveryDropGroup(format)}

\* Metadata assignments the caller may make: <<key, value>>
SampleEdits == {
    <<"album", Str(<<"a">>)>>,
    <<"date", Num(1999)>>,
    <<"tracknum", Num(3)>>,
    <<"comment", Str(<<"c">>)>>,
    <<COVER, JpegFront>>,
    <<COVER, NotAnImage>>,
    <<COVER, ImageStream_from_file(PngBack).val>> }

\* settings['metadata.tags.drop'] after Settings._load_defaults
DefaultDrop == {"comment", "legal", "rating", "url"}

\* the selections a configuration file may make
SampleDrops == {{}, {"legal"}}

----------------------------------------------------------------------------
(* The program: one audio file on disk, the Metadata object the caller     *)
(* holds, the drop selection of the settings, and a record of the calls.   *)
(*   fmt    the FileType mutagen detects for the file                      *)
(*   tags   the tags stored in the file (changed only by audio.save())     *)
(*   meta   the caller's Metadata                                          *)
(*   drop   settings['metadata.tags.drop']                                 *)
(*   saves  number of audio.save() calls so far                            *)
(*   edits  number of assignments the caller made to meta                  *)
(*   log    one entry per call                                             *)

\*   op, exc        the call and the exception that left it ("" for none)
\*   ran, skipped   the rules run, and those among them that skipped
\*   tags0, tags1   the tags in the file before and after the call
\*   dropped, mem   audio.tags after the drop step and when the call ended
\*   meta0, meta1   the caller's Metadata before and after the call
\*   drop, saved    the drop selection; whether audio.save() was called
\*   faults         the records the call wrote with logger.exception
Entry(op, exc, ran, skipped, tags0, dropped, mem, tags1, meta0, meta1, saved) ==
    [op |-> op, exc |-> exc, ran |-> ran, skipped |-> skipped,
     tags0 |-> tags0, dropped |-> dropped, mem |-> mem, tags1 |-> tags1,
     meta0 |-> meta0, meta1 |-> meta1, drop |-> drop, saved |-> saved,
     faults |-> <<>>]

Calls == Len(SelectSeq(log, LAMBDA e : e.op # "new"))

Init ==
    /\ fmt \in Formats
    /\ tags \in SampleFiles(fmt)
    /\ meta = <<>>
    /\ drop = DefaultDrop
    /\ saves = 0
    /\ edits = 0
    /\ log = <<>>
    /\ calls = <<>>
    /\ shared = <<>>
    /\ nodes = <<>>

\* mutagenfacade.from_file(path); the caller keeps the returned Metadata
FromFile ==
    /\ Calls < MaxCalls
    /\ Bind(from_file(fmt, tags), LAMBDA r :
           /\ meta' = IF r.exc = "" THEN r.metadata ELSE meta
           /\ log' = Append(log, After(r.faults,
                                Entry("from_file", r.exc, r.ran, r.skipped,
                                      tags, tags, r.tags, tags, meta, meta',
                                      FALSE))))
    /\ UNCHANGED <<fmt, tags, drop, saves, edits>>
    /\ UNCHANGED <<calls, shared, nodes>>

\* mutagenfacade.export(path, metadata)
Export ==
    /\ Calls < MaxCalls
    /\ Bind(export(fmt, tags, meta, drop), LAMBDA r :
           /\ tags' = IF r.saved THEN save(tags, r.tags) ELSE tags
           /\ saves' = IF r.saved THEN saves + 1 ELSE saves
           /\ log' = Append(log, After(r.faults,
                                Entry("export", r.exc, r.ran, r.skipped,
                                      tags, r.dropped, r.tags, tags', meta,
                                      meta, r.saved))))
    /\ UNCHANGED <<fmt, meta, drop, edits>>
    /\ UNCHANGED <<calls, shared, nodes>>

\* the caller turns to a fresh file of the same format, which has no tags
NewFile ==
    /\ Len(log) = 1
    /\ log[1].op = "from_file"
    /\ tags' = <<>>
    /\ log' = Append(log, Entry("new", "", <<>>, {}, tags, tags, <<>>, <<>>,
                                meta, meta, FALSE))
    /\ UNCHANGED <<fmt, meta, drop, saves, edits>>
    /\ UNCHANGED <<calls, shared, nodes>>

\* the caller assigns metadata[key] = value
Edit ==
    /\ edits < MaxEdits
    /\ log = <<>>
    /\ \E e \in SampleEdits :
          meta' = Metadata_setitem(meta, e[1], e[2]).d
    /\ edits' = edits + 1
    /\ UNCHANGED <<fmt, tags, drop, saves, log>>
    /\ UNCHANGED <<calls, shared, nodes>>

\* settings['metadata.tags.drop'] = selection, before any call is made
Configure ==
    /\ log = <<>>
    /\ drop = DefaultDrop
    /\ \E d \in SampleDrops : drop' = d
    /\ UNCHANGED <<fmt, tags, meta, saves, edits, log>>
    /\ UNCHANGED <<calls, shared, nodes>>

Next == FromFile \/ Export \/ NewFile \/ Edit \/ Configure

Spec == Init /\ [][Next]_vars

----------------------------------------------------------------------------
(* Properties of the rule loop. *)

IsCall(e) == e.op \in {"from_file", "export"}

\* the rules a logged call iterates over, and the dict it fills
RulesOf(e) ==
    IF e.op = "from_file" THEN _resolve_audiotype(fmt).read
    ELSE _resolve_audiotype(fmt).write.rules
ResultOf(e) == IF e.op = "from_file" THEN e.meta1 ELSE e.tags1

\* the target of a MoveTag rule is populated in d
Translated(e, rule, d) ==
    IF e.op = "from_file" THEN Has(d, rule.to)
    ELSE \E x \in 1..Len(d) : StartsWith(d[x].k, rule.to)

\* rule k of the call e copied a value (it ran and did not skip)
Copies(e, k) ==
    /\ \E x \in 1..Len(e.ran) : e.ran[x] = k
    /\ k \notin e.skipped
    /\ RulesOf(e)[k].kind = "MoveTag"

\* C1: for a supported format, from_file and export run the rules of the
\* mapping in declaration order; a rule that skips never ends the loop: the
\* rule declared after it still runs, SkipTagError never reaches the caller,
\* a call that returns has run every rule, and a later rule that does not
\* skip has its target populated when the call returns.
SkipIsolation ==
    \A i \in 1..Len(log) :
        LET e == log[i]
        IN  (IsCall(e) /\ fmt \in Supported) =>
            /\ \A j \in 1..Len(e.ran) : e.ran[j] = j
            /\ \A j \in e.skipped :
                  j < Len(RulesOf(e)) => Len(e.ran) >= j + 1
            /\ e.exc # "SkipTagError"
            /\ e.exc = "" => Len(e.ran) = Len(RulesOf(e))
            /\ e.exc = "" =>
                  \A j \in e.skipped, k \in 1..Len(RulesOf(e)) :
                      (j < k /\ Copies(e, k)) =>
                          Translated(e, RulesOf(e)[k], ResultOf(e))

\* a read and a write in which a rule skipped and a later rule copied its value
SkipIsolationReadWitness ==
    \E i \in 1..Len(log) :
        /\ log[i].op = "from_file" /\ fmt \in Supported /\ log[i].exc = ""
        /\ \E j \in log[i].skipped, k \in 1..Len(RulesOf(log[i])) :
              j < k /\ Copies(log[i], k)
                    /\ Translated(log[i], RulesOf(log[i])[k], log[i].meta1)

SkipIsolationWitness ==
    /\ SkipIsolationReadWitness
    /\ \E i \in 1..Len(log) :
        /\ log[i].op = "export" /\ fmt \in Supported /\ log[i].exc = ""
        /\ \E j \in log[i].skipped, k \in 1..Len(RulesOf(log[i])) :
              j < k /\ Copies(log[i], k)
                    /\ Translated(log[i], RulesOf(log[i])[k], log[i].tags1)

----------------------------------------------------------------------------
(* Failures that reach the caller. *)

\* C2: a call on a file of an unregistered format fails with
\* FileNotSupportedError, the unsupported-format error, and mutates nothing:
\* no tag is dropped, no rule runs, nothing is saved, and the file's tags and
\* the Metadata are as before the call.
UnknownFormatFails ==
    \A i \in 1..Len(log) :
        LET e == log[i]
        IN  (IsCall(e) /\ fmt \notin Supported) =>
            /\ e.exc = "FileNotSupportedError"
            /\ e.ran = <<>> /\ ~e.saved
            /\ e.dropped = e.tags0 /\ e.mem = e.tags0 /\ e.tags1 = e.tags0
            /\ e.meta1 = e.meta0

\* C3: for a file of a supported format no exception leaves from_file or
\* export, whatever the tags of the file and the Metadata hold, and every
\* rule of the mapping runs.
OnlyUnsupportedSurfaces ==
    \A i \in 1..Len(log) :
        LET e == log[i]
        IN  (IsCall(e) /\ fmt \in Supported) =>
            e.exc = "" /\ Len(e.ran) = Len(RulesOf(e))

----------------------------------------------------------------------------
(* Algebraic properties of read and write. *)

\* the write mapping of the format has a rule that takes the canonical field
HasNativeKey(field) ==
    \E k \in 1..Len(_resolve_audiotype(fmt).write.rules) :
        LET rule == _resolve_audiotype(fmt).write.rules[k]
        IN  CASE rule.kind = "MoveTag" -> rule.from = field
              [] rule.kind = "ToPairTag" -> field \in {rule.from[1], rule.from[2]}
              [] rule.kind = "PictureIn" -> field = COVER
              [] OTHER -> field = "albumsort"

\* the calls so far are: read a file, turn to an empty file of the same
\* format, write what was read, read the written file
IsRoundTrip ==
    /\ Len(log) = 4
    /\ log[1].op = "from_file" /\ log[1].exc = ""
    /\ log[2].op = "new"
    /\ log[3].op = "export"
    /\ log[4].op = "from_file"

\* C4: for a supported format, with M = read(C), writing M into an empty
\* container of the format and reading it back succeeds and gives the fields
\* of M for which the format has a native key, with the values of M, and no
\* other field.
RoundTrip ==
    (IsRoundTrip /\ fmt \in Supported) =>
        /\ log[3].exc = "" /\ log[4].exc = ""
        /\ Keys(log[4].meta1) \subseteq Keys(log[1].meta1)
        /\ \A field \in Keys(log[1].meta1) :
              HasNativeKey(field) =>
                  /\ Has(log[4].meta1, field)
                  /\ Get(log[4].meta1, field) = Get(log[1].meta1, field)

\* C5: for a supported format, an export directly followed by an export of
\* the same Metadata under the same drop selection ends as the first ended
\* and leaves the file with the keys and values the first export left (the
\* tags are compared as a dict: by key, whatever the order of the keys).
WriteIdempotent ==
    \A i \in 1..(Len(log) - 1) :
        (/\ fmt \in Supported
         /\ log[i].op = "export" /\ log[i + 1].op = "export"
         /\ log[i].meta0 = log[i + 1].meta0
         /\ log[i].drop = log[i + 1].drop) =>
            /\ log[i + 1].exc = log[i].exc
            /\ AsMap(log[i + 1].tags1) = AsMap(log[i].tags1)

\* two exports in a row, both saved, of a Metadata that holds a field, into
\* a file whose tags the first export changed and the drop step reduced
WriteIdempotentWitness ==
    /\ Len(log) >= 2
    /\ log[1].op = "export" /\ log[2].op = "export"
    /\ log[1].saved /\ log[2].saved
    /\ log[1].meta0 # <<>>
    /\ AsMap(log[1].tags1) # AsMap(log[1].tags0)
    /\ Len(log[1].dropped) < Len(log[1].tags0)
    /\ log[1].tags1 # <<>>

----------------------------------------------------------------------------
(* Packed pairs: files that hold TRCK "n/t" and TPOS "n". *)

PairText(n, t) == IntToStr(n) \o <<"/">> \o IntToStr(t)

InitPair ==
    /\ fmt = "MP3"
    /\ \E n \in 1..MaxNum, t \in 1..MaxNum :
          tags = <<Item(ID3Key.TRCK, TextFrame(ID3Key.TRCK, PairText(n, t))),
                   Item(ID3Key.TPOS, TextFrame(ID3Key.TPOS, IntToStr(n)))>>
    /\ meta = <<>>
    /\ drop = DefaultDrop
    /\ saves = 0
    /\ edits = 0
    /\ log = <<>>
    /\ calls = <<>>
    /\ shared = <<>>
    /\ nodes = <<>>

SpecPair == InitPair /\ [][Next]_vars

\* the text of the frame under key (empty when there is no such text frame)
TextOf(d, key) ==
    IF Has(d, key) /\ Get(d, key).t = "frame" /\ Len(Get(d, key).text) = 1
       /\ Get(d, key).text[1].t = "str"
    THEN Get(d, key).text[1].s ELSE <<>>

\* the decimal numeral of a positive integer
IsNumeral(s) == IsDigits(s) /\ DigitsToNat(s, 0) > 0 /\ NatToStr(DigitsToNat(s, 0)) = s

\* the frame holds the packed text "n/t", or the text "n"
HoldsPair(d, key) ==
    \E i \in 1..Len(TextOf(d, key)) :
        /\ TextOf(d, key)[i] = "/"
        /\ IsNumeral(SubSeq(TextOf(d, key), 1, i - 1))
        /\ IsNumeral(SubSeq(TextOf(d, key), i + 1, Len(TextOf(d, key))))
HoldsNumber(d, key) == IsNumeral(TextOf(d, key))

\* what reading the frame under key must give in the fields number and total
ReadsPair(e, key, number, total) ==
    /\ HoldsPair(e.tags0, key) =>
          /\ Has(e.meta1, number) /\ Has(e.meta1, total)
          /\ Get(e.meta1, number).t = "int" /\ Get(e.meta1, total).t = "int"
          /\ Get(e.tags0, key) =
                 TextFrame(key, PairText(Get(e.meta1, number).n,
                                         Get(e.meta1, total).n))
    /\ HoldsNumber(e.tags0, key) =>
          /\ Has(e.meta1, number) /\ ~Has(e.meta1, total)
          /\ Get(e.meta1, number).t = "int"
          /\ Get(e.tags0, key) = TextFrame(key, IntToStr(Get(e.meta1, number).n))

\* what writing the fields number and total must leave under key
WritesPair(e, key, number, total) ==
    (Has(e.meta0, number) /\ Get(e.meta0, number).t = "int") =>
        IF Has(e.meta0, total)
        THEN Get(e.tags1, key) =
                 TextFrame(key, PairText(Get(e.meta0, number).n,
                                         Get(e.meta0, total).n))
        ELSE Get(e.tags1, key) =
                 TextFrame(key, IntToStr(Get(e.meta0, number).n))

\* C6: for positive n and t, reading TRCK/TPOS "n/t" gives number n and
\* total t, and writing a number n with a total t gives the frame text "n/t";
\* reading "n" gives number n and no total, and writing a number n without a
\* total gives the frame text "n" (never "n/0").
PairSymmetry ==
    \A i \in 1..Len(log) :
        LET e == log[i]
        IN  /\ (e.op = "from_file" /\ e.exc = "") =>
                  /\ ReadsPair(e, ID3Key.TRCK, "tracknum", "tracktotal")
                  /\ ReadsPair(e, ID3Key.TPOS, "discnum", "disctotal")
            /\ (e.op = "export" /\ e.exc = "") =>
                  /\ WritesPair(e, ID3Key.TRCK, "tracknum", "tracktotal")
                  /\ WritesPair(e, ID3Key.TPOS, "discnum", "disctotal")

\* "n/t" with two-digit n and t and "n" were read, written to an empty file
\* and came back as the same texts
PairSymmetryWitness ==
    /\ Len(log) >= 3
    /\ log[1].op = "from_file" /\ log[1].exc = ""
    /\ log[2].op = "new"
    /\ log[3].op = "export" /\ log[3].exc = ""
    /\ \E n \in 10..MaxNum, t \in 10..MaxNum :
          /\ Get(log[1].tags0, ID3Key.TRCK) = TextFrame(ID3Key.TRCK, PairText(n, t))
          /\ Get(log[1].meta1, "tracknum") = Num(n)
          /\ Get(log[1].meta1, "tracktotal") = Num(t)
          /\ Get(log[1].meta1, "discnum") = Num(n)
          /\ ~Has(log[1].meta1, "disctotal")
          /\ Get(log[3].tags1, ID3Key.TRCK) = TextFrame(ID3Key.TRCK, PairText(n, t))
          /\ Get(log[3].tags1, ID3Key.TPOS) = TextFrame(ID3Key.TPOS, IntToStr(n))

----------------------------------------------------------------------------
(* Embedded pictures: files that hold valid pictures of distinct           *)
(* classifications, typed with the codes the container supplies.           *)

PictureClasses == {"ILLUSTRATION", "COVER_FRONT", "OTHER", "COVER_BACK"}

\* the orders in which a file may hold up to MaxPictures of the classes
PictureLists ==
    UNION {{s \in [1..k -> PictureClasses] :
               \A i, j \in 1..k : s[i] = s[j] => i = j} : k \in 1..MaxPictures}

\* a valid picture of the classification; its data tells the classification
ClassPicture(name) == Bytes(PictureType(name), TRUE, "JPEG")

\* the tags of a file of the format holding the pictures in the given order
PictureFile(format, names) ==
    IF format = "MP3"
    THEN [i \in 1..Len(names) |->
             Item(ID3Key.APIC \o Colon \o NatToStr(PictureType(names[i])),
                  Apic(ContainerPictureType(names[i]),
                       NatToStr(PictureType(names[i])),
                       ClassPicture(names[i])))]
    ELSE <<Item(OggKey.metadata_block_picture,
                List([i \in 1..Len(names) |->
                         B64(Picture(ContainerPictureType(names[i]), <<>>,
                                     ClassPicture(names[i])))]))>>

InitPictures ==
    /\ fmt \in {"MP3", "OGG"}
    /\ \E names \in PictureLists : tags = PictureFile(fmt, names)
    /\ meta = <<>>
    /\ drop = DefaultDrop
    /\ saves = 0
    /\ edits = 0
    /\ log = <<>>
    /\ calls = <<>>
    /\ shared = <<>>
    /\ nodes = <<>>

SpecPictures == InitPictures /\ [][Next]_vars

\* the rank of a classification in the fixed order: front cover first
Rank(name) ==
    IF \E i \in 1..Len(PRIORITY_ORDER) : PRIORITY_ORDER[i] = name
    THEN CHOOSE i \in 1..Len(PRIORITY_ORDER) : PRIORITY_ORDER[i] = name
    ELSE Len(PRIORITY_ORDER) + 1

\* C7: reading a file that holds valid pictures of the classifications
\* names, in any order, adopts as cover a picture whose classification ranks
\* highest in front cover > back cover > other > leaflet > media >
\* lead artist > artist > illustration > the rest.
PictureRanking ==
    \A names \in PictureLists :
        (/\ Len(log) >= 1
         /\ log[1].op = "from_file"
         /\ log[1].tags0 = PictureFile(fmt, names)) =>
            /\ log[1].exc = ""
            /\ Has(log[1].meta1, COVER)
            /\ \E i \in 1..Len(names) :
                  /\ Get(log[1].meta1, COVER).data.pic = PictureType(names[i])
                  /\ \A j \in 1..Len(names) : Rank(names[i]) <= Rank(names[j])

----------------------------------------------------------------------------
(* The drop step and audio.save(). *)

IsExport(e) == e.op = "export" /\ fmt \in Supported

\* some pattern of the group matches the key
InGroup(group, key) ==
    \E p \in 1..Len(get_useless(_resolve_audiotype(fmt).write, group)) :
        re_search(get_useless(_resolve_audiotype(fmt).write, group)[p], key)

\* the drop groups registered for the format of the file
Groups == DOMAIN _resolve_audiotype(fmt).write.useless

\* C8: the format has a drop group that every export removes even when no
\* group is selected: after the drop step of an export made with an empty
\* selection the container holds no key of that group.
MandatoryGroupRemoved ==
    fmt \in Supported =>
        \E group \in Groups :
            \A i \in 1..Len(log) :
                (IsExport(log[i]) /\ log[i].drop = {}) =>
                    \A x \in 1..Len(log[i].dropped) :
                        ~InGroup(group, log[i].dropped[x].k)

\* C8, as the code has it: no group is mandatory; the drop step of an export
\* made with an empty selection deletes nothing.
EmptySelectionDropsNothing ==
    \A i \in 1..Len(log) :
        (IsExport(log[i]) /\ log[i].drop = {}) =>
            log[i].dropped = log[i].tags0

\* an export with an empty selection of a file that holds a key of every
\* group of its format, all of them still there after the drop step
EmptySelectionWitness ==
    \E i \in 1..Len(log) :
        /\ IsExport(log[i]) /\ log[i].drop = {}
        /\ log[i].tags0 = EveryDropGroup(fmt)
        /\ \A group \in Groups :
              \E x \in 1..Len(log[i].dropped) :
                  InGroup(group, log[i].dropped[x].k)

EndsWith(s, suffix) ==
    Len(s) >= Len(suffix)
    /\ SubSeq(s, Len(s) - Len(suffix) + 1, Len(s)) = suffix

\* the keys the legal patterns of each format describe
IsLegalKey(key) ==
    CASE fmt = "MP3" -> key \in {ID3Key.TCOP, ID3Key.TOWN, ID3Key.TPRO}
      [] fmt = "MP4" ->
            key = MP4Key.cprt \/ EndsWith(key, <<"L", "I", "C", "E", "N", "S", "E">>)
      [] OTHER -> StartsWith(key, OggKey.copyright) \/ StartsWith(key, OggKey.license)

\* the keys that hold a comment in each format
IsCommentKey(key) ==
    CASE fmt = "MP3" -> StartsWith(key, ID3Key.COMM)
      [] fmt = "MP4" -> key = MP4Key.cmt
      [] OTHER -> key = OggKey.comment

\* C9: when "legal" is the only selected group, the drop step deletes the
\* keys that match a legal pattern of the format and no other key; comment
\* keys are still there after the drop step.
OnlyLegalDropped ==
    \A i \in 1..Len(log) :
        (IsExport(log[i]) /\ log[i].drop = {"legal"}) =>
            /\ log[i].dropped =
                   SelectSeq(log[i].tags0, LAMBDA item : ~IsLegalKey(item.k))
            /\ \A x \in 1..Len(log[i].tags0) :
                  IsCommentKey(log[i].tags0[x].k) =>
                      \E y \in 1..Len(log[i].dropped) :
                          log[i].dropped[y] = log[i].tags0[x]

\* an export with only "legal" selected of a file that held a legal key and
\* a comment key: the first is gone after the drop step, the second is not
OnlyLegalDroppedWitness ==
    \E i \in 1..Len(log) :
        /\ IsExport(log[i]) /\ log[i].drop = {"legal"}
        /\ \E x \in 1..Len(log[i].tags0) : IsLegalKey(log[i].tags0[x].k)
        /\ \E x \in 1..Len(log[i].dropped) : IsCommentKey(log[i].dropped[x].k)
        /\ \A x \in 1..Len(log[i].dropped) : ~IsLegalKey(log[i].dropped[x].k)

\* C10: export never persists: no export calls audio.save(), and the tags
\* in the file are after the call what they were before it.
WriteNeverSaves ==
    \A i \in 1..Len(log) :
        log[i].op = "export" =>
            ~log[i].saved /\ log[i].tags1 = log[i].tags0

\* the exports among the first n calls that returned without an exception
RECURSIVE Returned(_)
Returned(n) ==
    IF n = 0 THEN 0
    ELSE Returned(n - 1) +
         (IF log[n].op = "export" /\ log[n].exc = "" THEN 1 ELSE 0)

\* C10, as the code has it: an export that returns has called audio.save()
\* once, as its last step, and the file then holds the tags of the
\* container in memory; an export that raises and a from_file save nothing
\* and leave the file's tags as they were.
SavesOnReturn ==
    /\ saves = Returned(Len(log))
    /\ \A i \in 1..Len(log) :
          /\ log[i].op = "export" =>
                /\ log[i].saved <=> log[i].exc = ""
                /\ log[i].exc = "" => log[i].tags1 = log[i].mem
                /\ log[i].exc # "" => log[i].tags1 = log[i].tags0
          /\ log[i].op = "from_file" =>
                ~log[i].saved /\ log[i].tags1 = log[i].tags0

\* an export returned and changed the tags in the file, and an export raised
SavesOnReturnWitness ==
    /\ \E i \in 1..Len(log) :
          /\ IsExport(log[i]) /\ log[i].exc = "" /\ log[i].saved
          /\ log[i].tags1 # log[i].tags0
    /\ \E i \in 1..Len(log) :
          IsExport(log[i]) /\ log[i].exc # "" /\ log[i].mem # log[i].tags0

----------------------------------------------------------------------------
(* The Metadata record on its own: a caller that assigns items, assigns    *)
(* attributes, updates and deletes.  log holds the last operation only:    *)
(*   op, args     the operation and the <<key, value>> pairs it was given  *)
(*   exc          the exception that left it ("" for none)                 *)
(*   meta0, meta1 the record before and after                              *)

MaxUpdate == 2     \* most items in the dict given to one update()

\* the assignments the caller may make: <<key, value>>.  "tracknumber" is
\* a key outside Metadata.mapping.
SampleAssignments == {
    <<"album", None>>, <<"album", Str(<<>>)>>, <<"album", Str(<<" ", "a">>)>>,
    <<"album", Num(5)>>,
    <<"artist", None>>, <<"artist", List(<<>>)>>, <<"artist", List(<<Num(1)>>)>>,
    <<"artist", Str(<<"x">>)>>, <<"artist", List(<<Str(<<"a">>)>>)>>,
    <<"date", None>>, <<"date", Num(0)>>, <<"date", Num(0 - 1)>>,
    <<"date", Str(<<"7">>)>>, <<"date", Str(<<"x">>)>>, <<"date", Num(5)>>,
    <<"date", List(<<>>)>>,
    <<"tracknumber", None>>, <<"tracknumber", Num(0 - 1)>> }

SampleKeys == {a[1] : a \in SampleAssignments}

\* the dicts given to update(): their items, in order
SampleUpdates == {
    <<>>,
    <<<<"date", Num(5)>>, <<"album", Str(<<>>)>>>>,
    <<<<"album", Num(5)>>, <<"date", Num(0 - 1)>>>>,
    <<<<"date", Str(<<"x">>)>>, <<"artist", Str(<<"x">>)>>>>,
    <<<<"artist", None>>, <<"date", Num(0)>>>> }

MetaEntry(op, args, r) ==
    [op |-> op, args |-> args, exc |-> r.exc, meta0 |-> meta, meta1 |-> r.d]

InitMetadata ==
    /\ fmt = "MP3"
    /\ tags = <<>>
    /\ meta = <<>>
    /\ drop = DefaultDrop
    /\ saves = 0
    /\ edits = 0
    /\ log = <<>>
    /\ calls = <<>>
    /\ shared = <<>>
    /\ nodes = <<>>

\* metadata[key] = value
MetaSetItem ==
    /\ \E a \in SampleAssignments :
          Bind(Metadata_setitem(meta, a[1], a[2]), LAMBDA r :
              /\ meta' = r.d
              /\ log' = <<MetaEntry("setitem", <<a>>, r)>>)
    /\ UNCHANGED <<fmt, tags, drop, saves, edits>>
    /\ UNCHANGED <<calls, shared, nodes>>

\* metadata.key = value
MetaSetAttr ==
    /\ \E a \in SampleAssignments :
          Bind(Metadata_setattr(meta, a[1], a[2]), LAMBDA r :
              /\ meta' = r.d
              /\ log' = <<MetaEntry("setattr", <<a>>, r)>>)
    /\ UNCHANGED <<fmt, tags, drop, saves, edits>>
    /\ UNCHANGED <<calls, shared, nodes>>

\* del metadata[key]
MetaDelItem ==
    /\ \E k \in SampleKeys :
          Bind(Metadata_delitem(meta, k), LAMBDA r :
              /\ meta' = r.d
              /\ log' = <<MetaEntry("delitem", <<<<k, None>>>>, r)>>)
    /\ UNCHANGED <<fmt, tags, drop, saves, edits>>
    /\ UNCHANGED <<calls, shared, nodes>>

\* metadata.update(data)
MetaUpdate ==
    /\ \E data \in {u \in SampleUpdates : Len(u) <= MaxUpdate} :
          Bind(Metadata_update(meta, data), LAMBDA r :
              /\ meta' = r.d
              /\ log' = <<MetaEntry("update", data, r)>>)
    /\ UNCHANGED <<fmt, tags, drop, saves, edits>>
    /\ UNCHANGED <<calls, shared, nodes>>

NextMetadata == MetaSetItem \/ MetaSetAttr \/ MetaDelItem \/ MetaUpdate

SpecMetadata == InitMetadata /\ [][NextMetadata]_vars

\* the last operation assigned one value (item or attribute assignment)
IsAssignment(e) == e.op \in {"setitem", "setattr"}

\* a value int() rejects, or a negative number
Uncoercible(value) ==
    ~IsNone(value) /\ (~PyInt(value).ok \/ PyInt(value).n < 0)

\* the numeric tags as the enumeration of tag names lists them
ListedNumericTags == {"albumsort", "date", "discnumber", "disctotal",
                      "originaldate", "tracknumber", "tracktotal"}

NoSentinelStored ==
    \A i \in 1..Len(meta) :
        /\ meta[i].v.t # "none"
        /\ meta[i].v.t = "str" => meta[i].v.s # <<>>
        /\ IsSeq(meta[i].v) => meta[i].v.xs # <<>>

\* C12 (amended): no key ever maps to None.  Assigning None to any key, or
\* zero to a numeric key, or deleting the key, leaves the record without
\* that key whether or not it was present before.  (An empty string and an
\* empty sequence are not removed: they are stored.)
NoneNeverStored ==
    /\ \A i \in 1..Len(meta) : meta[i].v.t # "none"
    /\ \A i \in 1..Len(log) :
           (/\ log[i].op # "update"
            /\ log[i].exc = ""
            /\ \/ IsNone(log[i].args[1][2])
               \/ /\ log[i].args[1][1] \in IntTags
                  /\ PyInt(log[i].args[1][2]).ok
                  /\ PyInt(log[i].args[1][2]).n = 0)
           => ~Has(log[i].meta1, log[i].args[1][1])

\* None was assigned to a key that was present, and the key is gone
NoneNeverStoredWitness ==
    /\ Len(log) = 1
    /\ IsAssignment(log[1])
    /\ IsNone(log[1].args[1][2])
    /\ Has(log[1].meta0, log[1].args[1][1])
    /\ ~Has(meta, log[1].args[1][1])

\* C13 as stated: a value stored under a string tag is a string without
\* leading or trailing whitespace, and a value stored under a list tag is a
\* non-empty sequence whose elements are all strings.
TextTrimmedListsOfStrings ==
    \A i \in 1..Len(meta) :
        /\ meta[i].k \in StrTags =>
               meta[i].v.t = "str" /\ Strip(meta[i].v.s) = meta[i].v.s
        /\ meta[i].k \in ListTags =>
               /\ meta[i].v.t = "list"
               /\ meta[i].v.xs # <<>>
               /\ \A j \in 1..Len(meta[i].v.xs) : meta[i].v.xs[j].t = "str"

\* C13 (amended): a value stored under a string tag is a string, namely
\* str() of the assigned value with its whitespace kept; a value stored
\* under a list tag is a list, namely the assigned sequence as it is
\* (possibly empty, its elements not converted) or the one-element list of
\* the assigned string or other value.
TextNormalized ==
    /\ \A i \in 1..Len(meta) :
           /\ meta[i].k \in StrTags => meta[i].v.t = "str"
           /\ meta[i].k \in ListTags => meta[i].v.t = "list"
    /\ \A i \in 1..Len(log) :
           (IsAssignment(log[i]) /\ ~IsNone(log[i].args[1][2]))
           => /\ log[i].args[1][1] \in StrTags =>
                     Get(log[i].meta1, log[i].args[1][1])
                         = Str(PyStr(log[i].args[1][2]))
              /\ log[i].args[1][1] \in ListTags =>
                     Get(log[i].meta1, log[i].args[1][1])
                         = List(IF IsSeq(log[i].args[1][2])
                                THEN log[i].args[1][2].xs
                                ELSE <<log[i].args[1][2]>>)

\* a number was assigned to album and is stored as its decimal string, next
\* to an artist list that was built from a single string
TextNormalizedWitness ==
    /\ Len(log) = 1
    /\ IsAssignment(log[1])
    /\ log[1].args[1] = <<"album", Num(5)>>
    /\ Get(meta, "album") = Str(<<"5">>)
    /\ Get(meta, "artist") = List(<<Str(<<"x">>)>>)


----------------------------------------------------------------------------
(* Translation calls that run at the same time.  Every call works on its   *)
(* own file and its own Metadata; the calls share the module-level Mapping *)
(* objects, the rules and filters inside them, and the settings.  A call   *)
(* is interrupted between two rules at the earliest.                       *)

Callers == {1, 2}

\* the module-level objects every call reads
SharedState(format) ==
    [read |-> _resolve_audiotype(format).read,
     write |-> _resolve_audiotype(format).write,
     drop |-> DefaultDrop]

\* a call that has not started: the file it names and, for export, the
\* Metadata it is given; pc is the index of the rule to run next, overlap
\* tells whether the other call was between two of its rules when this
\* one started
NewCall(op, audiotags, metadata) ==
    [op |-> op, file |-> audiotags, mem |-> <<>>, metadata |-> metadata,
     pc |-> 0, exc |-> "", done |-> FALSE, saved |-> FALSE, overlap |-> FALSE,
     file0 |-> audiotags, metadata0 |-> metadata]

\* the call is between two of its rules
InLoop(call) == call.pc > 1 /\ ~call.done

\* the files the concurrent calls are given: at most one tag each
SmallFiles(format) == {d \in SampleFiles(format) : Len(d) <= 1}

CallInputs(format) ==
    {NewCall("from_file", d, <<>>) : d \in SmallFiles(format)}
    \cup {NewCall("export", EveryDropGroup(format),
                  from_file(format, d).metadata) : d \in SmallFiles(format)}

\* the rules a call iterates over, read from the shared mapping
CallRules(call) ==
    IF call.op = "from_file" THEN shared.read ELSE shared.write.rules

\* a rule whose filter loop pops the filters off the rule's own list
rule_consumes_filters(rule) == [rule EXCEPT !.filters = <<>>]

\* the rule object after rule(source, target): run, _execute, _filter,
\* get_tag and set_tag assign no attribute of the rule or of its filters
rule_after_call(rule) == rule

\* the shared objects after the call ran the rule at its pc
SharedAfter(call, rule) ==
    IF call.op = "from_file"
    THEN [shared EXCEPT !.read[call.pc] = rule]
    ELSE [shared EXCEPT !.write.rules[call.pc] = rule]

InitConcurrent ==
    /\ fmt \in Supported
    /\ tags = <<>>
    /\ meta = <<>>
    /\ drop = DefaultDrop
    /\ saves = 0
    /\ edits = 0
    /\ log = <<>>
    /\ calls \in [Callers -> CallInputs(fmt)]
    /\ shared = SharedState(fmt)
    /\ nodes = <<>>

\* the call opens its file and resolves the mapping; from_file creates the
\* Metadata it will return, export runs the drop step on audio.tags
CallBegin ==
    /\ \E c \in Callers :
          /\ calls[c].pc = 0
          /\ Bind(calls[c], LAMBDA call :
             Bind(\E o \in Callers \ {c} : InLoop(calls[o]), LAMBDA over :
                calls' = [calls EXCEPT ![c] =
                   IF call.op = "from_file"
                   THEN [call EXCEPT !.pc = 1, !.mem = call.file,
                                     !.metadata = <<>>, !.overlap = over]
                   ELSE [call EXCEPT !.pc = 1, !.overlap = over,
                                     !.mem = drop_useless(call.file,
                                                          shared.write,
                                                          shared.drop)]]))
    /\ UNCHANGED <<fmt, tags, meta, drop, saves, edits, log, shared, nodes>>

\* one turn of `for rule in mapping: try: rule(source, target)
\* except SkipTagError: continue`
CallRule ==
    /\ \E c \in Callers :
          /\ ~calls[c].done
          /\ calls[c].pc \in 1..Len(CallRules(calls[c]))
          /\ Bind(calls[c], LAMBDA call :
             Bind(CallRules(call)[call.pc], LAMBDA rule :
             Bind(IF call.op = "from_file"
                  THEN <<Container(TagsKind(fmt), call.mem),
                         Container("Metadata", call.metadata)>>
                  ELSE <<Container("Metadata", call.metadata),
                         Container(TagsKind(fmt), call.mem)>>, LAMBDA st :
             Bind(run_rule(rule, st[2], _execute(rule, st[1], st[2])),
                  LAMBDA r :
                /\ calls' = [calls EXCEPT ![c] =
                      [call EXCEPT
                          !.pc = call.pc + 1,
                          !.exc = IF leaves_loop(r.exc) THEN r.exc ELSE "",
                          !.done = leaves_loop(r.exc),
                          !.metadata = IF call.op = "from_file"
                                       THEN r.d ELSE call.metadata,
                          !.mem = IF call.op = "from_file"
                                  THEN call.mem ELSE r.d]]
                /\ shared' = SharedAfter(call, rule_after_call(rule))))))
    /\ UNCHANGED <<fmt, tags, meta, drop, saves, edits, log, nodes>>

\* the loop is over: from_file returns the Metadata, export calls
\* audio.save()
CallEnd ==
    /\ \E c \in Callers :
          /\ ~calls[c].done
          /\ calls[c].pc = Len(CallRules(calls[c])) + 1
          /\ Bind(calls[c], LAMBDA call :
                calls' = [calls EXCEPT ![c] =
                   IF call.op = "from_file" THEN [call EXCEPT !.done = TRUE]
                   ELSE [call EXCEPT !.done = TRUE, !.saved = TRUE,
                                     !.file = save(call.file, call.mem)]])
    /\ UNCHANGED <<fmt, tags, meta, drop, saves, edits, log, shared, nodes>>

NextConcurrent == CallBegin \/ CallRule \/ CallEnd

SpecConcurrent == InitConcurrent /\ [][NextConcurrent]_vars

\* the finished call c ended as the same call does when it runs alone
AsWhenAlone(call) ==
    IF call.op = "from_file"
    THEN Bind(from_file(fmt, call.file0), LAMBDA r :
            /\ call.exc = r.exc
            /\ call.metadata = r.metadata
            /\ call.file = call.file0
            /\ call.mem = r.tags)
    ELSE Bind(export(fmt, call.file0, call.metadata0, DefaultDrop), LAMBDA r :
            /\ call.exc = r.exc
            /\ call.mem = r.tags
            /\ call.saved = r.saved
            /\ call.file = (IF r.saved THEN save(call.file0, r.tags)
                            ELSE call.file0)
            /\ call.metadata = call.metadata0)

----------------------------------------------------------------------------
(* The drop step when the caller configured nothing. *)

\* the groups the property lists
ListedGroups == {"comment", "legal", "rating", "url", "lyrics"}

\* the export was made with the selection Settings._load_defaults installs:
\* no Configure came before it
Unconfigured(e) == IsExport(e) /\ e.drop = DefaultDrop

\* the item of tags0 is still in the container after the drop step
Survives(e, item) == \E y \in 1..Len(e.dropped) : e.dropped[y] = item

\* C15: when the caller supplies no drop-group configuration, the drop step
\* of an export deletes no container key that matches a comment, legal,
\* rating, url or lyrics pattern.
NothingStrippedByDefault ==
    \A i \in 1..Len(log) :
        Unconfigured(log[i]) =>
            \A x \in 1..Len(log[i].tags0) :
                (\E g \in ListedGroups : InGroup(g, log[i].tags0[x].k)) =>
                    Survives(log[i], log[i].tags0[x])

\* C15, as the code has it: without configuration the selection is the
\* default one (comment, legal, rating, url); the drop step deletes the keys
\* that match a pattern of one of these four groups and no other key, so a
\* key that matches only a lyrics pattern is still there.
DefaultSelectionStripped ==
    \A i \in 1..Len(log) :
        Unconfigured(log[i]) =>
            \A x \in 1..Len(log[i].tags0) :
                Survives(log[i], log[i].tags0[x]) <=>
                    ~\E g \in {"comment", "legal", "rating", "url"} :
                        InGroup(g, log[i].tags0[x].k)

\* an export without configuration of a file that holds a key of every
\* group: the legal and rating keys are gone after the drop step, the lyrics
\* key is not
DefaultSelectionWitness ==
    \E i \in 1..Len(log) :
        /\ Unconfigured(log[i])
        /\ log[i].tags0 = EveryDropGroup(fmt)
        /\ \A x \in 1..Len(log[i].dropped) :
              /\ ~InGroup("legal", log[i].dropped[x].k)
              /\ ~InGroup("rating", log[i].dropped[x].k)
        /\ \E x \in 1..Len(log[i].dropped) :
              InGroup("lyrics", log[i].dropped[x].k)


----------------------------------------------------------------------------
(* Values the target refuses.  Of the targets, Metadata is the one whose   *)
(* __setitem__ raises: a numeric tag refuses a negative number             *)
(* (ValueError) and a value int() cannot convert.                          *)

\* per format, tags whose values Metadata refuses, and one it accepts
RefusedTags(format) ==
    CASE format = "MP3" -> <<
            Item(ID3Key.TRCK,
                 TextFrame(ID3Key.TRCK, <<"-", "3", "/", "1", "2">>)),
            Item(ID3Key.TPOS, TextFrame(ID3Key.TPOS, <<"3", "/", "-", "1">>)),
            Item(ID3Key.TALB, TextFrame(ID3Key.TALB, <<"a">>)) >>
      [] format = "MP4" -> <<
            Item(MP4Key.day, List(<<Str(<<"-", "5">>)>>)),
            Item(MP4Key.trkn, List(<<Tuple(<<Num(-3), Num(12)>>)>>)),
            Item(MP4Key.disk, List(<<Tuple(<<Num(3), Num(-1)>>)>>)),
            Item(MP4Key.alb, List(<<Str(<<"a">>)>>)) >>
      [] OTHER -> <<
            Item(OggKey.date, List(<<Str(<<"-", "5">>)>>)),
            Item(OggKey.tracknumber, List(<<Str(<<"-", "1">>)>>)),
            Item(OggKey.album, List(<<Str(<<"a">>)>>)) >>

InitRefused ==
    /\ fmt \in Supported
    /\ tags \in {Pick(RefusedTags(fmt), I) :
                    I \in SUBSET (1..Len(RefusedTags(fmt))) \ {{}}}
    /\ meta = <<>>
    /\ drop = DefaultDrop
    /\ saves = 0
    /\ edits = 0
    /\ log = <<>>
    /\ calls = <<>>
    /\ shared = <<>>
    /\ nodes = <<>>

SpecRefused == InitRefused /\ [][Next]_vars

\* Metadata refuses the value under the key
Refuses(key, value) ==
    ~IsNone(value) /\ mapping(key, value).exc \in {"TypeError", "ValueError"}

\* the <<target key, value>> pairs a read rule hands to set_tag when the
\* file holds the tags: the filtered value of a MoveTag, the two numbers of
\* a PairTag
Offered(rule, audiotags) ==
    IF rule.kind \notin {"MoveTag", "PairTag"} THEN {}
    ELSE Bind(get_tag(Container(TagsKind(fmt), audiotags), rule.from),
              LAMBDA g :
        IF g.exc # "" THEN {}
        ELSE Bind(_filter(rule.filters, g.val), LAMBDA f :
            IF f.exc # "" THEN {}
            ELSE IF rule.kind = "MoveTag" THEN {<<rule.to, f.val>>}
            ELSE IF f.val.t # "list" THEN {}
            ELSE {<<rule.to[x],
                    ToInt([notzero |-> FALSE],
                          (f.val.xs \o <<None, None>>)[x]).val>> :
                      x \in 1..2}))

\* all pairs the rules of the read mapping hand to set_tag
AllOffered(audiotags) ==
    UNION {Offered(_resolve_audiotype(fmt).read[k], audiotags) :
               k \in 1..Len(_resolve_audiotype(fmt).read)}

IsRead(e) == e.op = "from_file" /\ fmt \in Supported

\* C16: when the target refuses a value with a TypeError or ValueError, the
\* fault is logged, it does not reach the caller, the refused value is not
\* stored, every rule of the mapping still runs, and every value the target
\* accepts is stored as the target normalizes it.
RefusedValueSkipped ==
    \A i \in 1..Len(log) :
        IsRead(log[i]) =>
            /\ \A o \in AllOffered(log[i].tags0) :
                  IF Refuses(o[1], o[2])
                  THEN /\ log[i].exc = ""
                       /\ log[i].ran =
                             [j \in 1..Len(_resolve_audiotype(fmt).read) |-> j]
                       /\ ~Has(log[i].meta1, o[1])
                       /\ \E x \in 1..Len(log[i].faults) :
                             log[i].faults[x] =
                                 Fault(Container("Metadata", <<>>), o[1], o[2])
                  ELSE \/ IsNone(o[2])
                       \/ Get(log[i].meta1, o[1]) = mapping(o[1], o[2]).val
            /\ \A x \in 1..Len(log[i].faults) :
                  \E o \in AllOffered(log[i].tags0) :
                      /\ Refuses(o[1], o[2])
                      /\ log[i].faults[x].key = o[1]
                      /\ log[i].faults[x].value = o[2]

\* a read of a file with a value Metadata refused and a value it accepted:
\* the call returned, the first is logged and absent, the second is stored
RefusedValueWitness ==
    \E i \in 1..Len(log) :
        /\ IsRead(log[i]) /\ log[i].exc = "" /\ Len(log[i].faults) > 0
        /\ \E o \in AllOffered(log[i].tags0) :
              Refuses(o[1], o[2]) /\ ~Has(log[i].meta1, o[1])
        /\ \E o \in AllOffered(log[i].tags0) :
              /\ ~Refuses(o[1], o[2]) /\ ~IsNone(o[2])
              /\ Has(log[i].meta1, o[1])


----------------------------------------------------------------------------
(* booktag/api/mutagenapi.py: transformation functions and the MapRule     *)
(* classes.  Containers are Python dicts; keys are strings (sequences of   *)
(* characters), keyword arguments are functions from names to values.      *)

\* len(value): [ok, n]; ok = FALSE is the TypeError of an object without len
PyLen(value) ==
    CASE value.t = "str" -> [ok |-> TRUE, n |-> Len(value.s)]
      [] value.t \in {"list", "tuple"} -> [ok |-> TRUE, n |-> Len(value.xs)]
      [] OTHER -> [ok |-> FALSE, n |-> 0]

not_none(value) ==
    IF IsNone(value) \/ (PyLen(value).ok /\ PyLen(value).n = 0)
    THEN Raise("SkipTagError")
    ELSE Ok(value)

not_zero(value) ==
    IF value = Num(0) THEN Raise("SkipTagError") ELSE Ok(value)

to_int(value) ==
    Bind(PyInt(value), LAMBDA r : IF r.ok THEN Num(r.n) ELSE Num(0))

to_string(value) == IF IsNone(value) THEN Str(<<>>) ELSE Str(PyStr(value))

\* [value] if isinstance(value, str) else list(value); an ID3 text frame
\* iterates over its text
to_list(value) ==
    CASE value.t = "str" -> List(<<value>>)
      [] value.t \in {"list", "tuple"} -> List(value.xs)
      [] value.t = "frame" -> List(value.text)
      [] value.t = "none" -> List(<<>>)
      [] OTHER -> List(<<value>>)

zeroindex_get(value) ==
    Bind(to_list(value).xs, LAMBDA xs :
        IF xs = <<>> THEN Raise("SkipTagError") ELSE Ok(xs[1]))

\* kwargs.get(name, default)
KwGet(kw, name, default) == IF name \in DOMAIN kw THEN kw[name] ELSE default

join_list(value, kw) ==
    Bind(to_list(value).xs, LAMBDA xs :
        Str(Strip(Join(KwGet(kw, "sep", <<>>),
                       [i \in 1..Len(xs) |-> PyStr(xs[i])]))))

\* re.split(pattern, s) for the alternation of the characters of sep; the
\* empty pattern of sep=None matches between any two characters
re_split(sep, s) ==
    IF sep = <<>> THEN <<<<>>>> \o [i \in 1..Len(s) |-> <<s[i]>>] \o <<<<>>>>
    ELSE Split({sep[i] : i \in 1..Len(sep)}, s, <<>>)

split_values(value, kw) ==
    Bind(to_list(value).xs, LAMBDA items :
        Bind(Concat([i \in 1..Len(items) |->
                        Bind(re_split(KwGet(kw, "sep", <<>>),
                                      PyStr(items[i])), LAMBDA raw :
                            [j \in 1..Len(raw) |-> Strip(raw[j])])]),
             LAMBDA newvalue :
                Bind(SelectSeq(newvalue, NonEmptySeq), LAMBDA kept :
                    List([i \in 1..Len(kept) |-> Str(kept[i])]))))

\* id3_read(tag, attr='text'), without an encoding to convert from
id3_read(tag, kw) ==
    IF tag.t = "frame" /\ KwGet(kw, "attr", "text") = "text" /\ tag.text # <<>>
    THEN Ok(List(tag.text))
    ELSE Raise("SkipTagError")

\* getattr(id3, name) finds a frame class
IsFrameClass(name) == \E f \in DOMAIN ID3Key : ID3Key[f] = name

\* MP3Write.make_frame
make_frame(to, value, kw) ==
    IF IsFrameClass(to) /\ KwGet(kw, "attr", "text") = "text"
       /\ value.t = "list" /\ \A i \in 1..Len(value.xs) : value.xs[i].t = "str"
    THEN Ok(Frame(to, value.xs, <<>>))
    ELSE Raise("SkipTagError")

\* to_zeroindex_tuple of pair_mp4_write
to_zeroindex_tuple(value) ==
    IF ~IsSeq(value) THEN Raise("TypeError")
    ELSE IF value.xs = <<Num(0), Num(0)>> THEN Raise("SkipTagError")
    ELSE Ok(List(<<Tuple(value.xs)>>))

\* functional.rstrip(iterable): the list without its trailing false items
RECURSIVE rstrip(_)
rstrip(values) ==
    IF values = <<>> THEN <<>>
    ELSE IF Truth(values[Len(values)]).val THEN values
    ELSE rstrip(SubSeq(values, 1, Len(values) - 1))

\* MapRule.__init__
MapRule(from_, to, transform, kwargs) ==
    [cls |-> "MapRule", from_ |-> from_, to |-> to, kwargs |-> kwargs,
     transform |-> <<"not_none">> \o transform \o <<"not_none">>]

\* a MapWriteRule that converts to a list before the caller's functions
MapWriteRule_first(from_, to, transform, kwargs) ==
    [MapRule(from_, to, <<"to_list">> \o transform, kwargs)
        EXCEPT !.cls = "MapWriteRule"]

\* MapWriteRule.__init__
MapWriteRule(from_, to, transform, kwargs) ==
    [MapRule(from_, to, transform \o <<"to_list">>, kwargs)
        EXCEPT !.cls = "MapWriteRule"]

\* MP3Read.__init__
MP3Read(from_, to, transform, kwargs) ==
    [MapRule(from_, to, <<"id3_read">> \o transform, kwargs)
        EXCEPT !.cls = "MP3Read"]

\* MP3Write.__init__
MP3Write(from_, to, transform, kwargs) ==
    [MapWriteRule(from_, to, transform, kwargs)
        EXCEPT !.cls = "MP3Write", !.transform = @ \o <<"make_frame">>]

\* transform(value, **kw) for the function of that name
Transform(rule, name, value, kw) ==
    CASE name = "not_none" -> not_none(value)
      [] name = "not_zero" -> not_zero(value)
      [] name = "to_int" -> Ok(to_int(value))
      [] name = "to_string" -> Ok(to_string(value))
      [] name = "to_list" -> Ok(to_list(value))
      [] name = "zeroindex_get" -> zeroindex_get(value)
      [] name = "join_list" -> Ok(join_list(value, kw))
      [] name = "split_values" -> Ok(split_values(value, kw))
      [] name = "id3_read" -> id3_read(value, kw)
      [] name = "to_zeroindex_tuple" -> to_zeroindex_tuple(value)
      [] name = "make_frame" -> make_frame(rule.to, value, kw)

\* `for transform in self.transform: value = transform(value, **kw)`:
\* [exc, val, trace], trace the calls made: <<function, argument>>
RECURSIVE MapRule_loop(_, _, _, _, _)
MapRule_loop(rule, i, value, kw, trace) ==
    IF i > Len(rule.transform)
    THEN [exc |-> "", val |-> value, trace |-> trace]
    ELSE Bind(Transform(rule, rule.transform[i], value, kw), LAMBDA r :
        Bind(Append(trace, <<rule.transform[i], value>>), LAMBDA called :
            IF r.exc # "" THEN [exc |-> r.exc, val |-> value, trace |-> called]
            ELSE MapRule_loop(rule, i + 1, r.val, kw, called)))

\* a rule that leaves the key alone when there is nothing to write
_process_skipped_keep(rule, target) == target

\* _process_skipped: MapWriteRule (and MP3Write) delete the target key
_process_skipped(rule, target) ==
    IF rule.cls \in {"MapWriteRule", "MP3Write"} THEN Remove(target, rule.to)
    ELSE target

\* MapRule.run(source, target, **kwargs): [exc, d, trace]
MapRule_run(rule, source, target, kwargs) ==
    IF ~Has(source, rule.from_)
    THEN [exc |-> "", d |-> _process_skipped(rule, target), trace |-> <<>>]
    ELSE Bind(MapRule_loop(rule, 1, Get(source, rule.from_),
                           kwargs @@ rule.kwargs, <<>>), LAMBDA r :
            IF r.exc = ""
            THEN [exc |-> "", d |-> Put(target, rule.to, r.val),
                  trace |-> r.trace]
            ELSE IF r.exc \in {"KeyError", "SkipTagError"}
            THEN [exc |-> "", d |-> _process_skipped(rule, target),
                  trace |-> r.trace]
            ELSE [exc |-> r.exc, d |-> target, trace |-> r.trace])


----------------------------------------------------------------------------
(* Calls of the mutagenapi rules.  The container the rule writes to is     *)
(* tags; log holds the call made.                                          *)

ApiKey == [data |-> <<"d", "a", "t", "a">>, num |-> <<"n", "u", "m">>,
           total |-> <<"t", "o", "t", "a", "l">>]

Slash == <<"/">>

\* the rule classes, and the functions a caller chains
RuleClasses == {"MapRule", "MapWriteRule", "MP3Read", "MP3Write"}
SampleTransforms == {<<>>, <<"to_int", "not_zero", "to_string">>,
                     <<"split_values">>, <<"zeroindex_get", "to_list">>,
                     <<"join_list">>}

\* cls(from_, to, *transform, **kwargs)
NewRule(cls, from_, to, transform, kwargs) ==
    CASE cls = "MapRule" -> MapRule(from_, to, transform, kwargs)
      [] cls = "MapWriteRule" -> MapWriteRule(from_, to, transform, kwargs)
      [] cls = "MP3Read" -> MP3Read(from_, to, transform, kwargs)
      [] cls = "MP3Write" -> MP3Write(from_, to, transform, kwargs)

\* values a source container holds under the key
SampleValues == {
    None, Str(<<>>), Str(<<"1", "/", "2">>), Str(<<" ", "7">>), Num(0), Num(3),
    List(<<>>), List(<<Str(<<"1", "/", "2">>)>>), List(<<Str(<<"3">>)>>),
    List(<<Tuple(<<Num(1), Num(2)>>)>>), List(<<Tuple(<<>>)>>),
    TextFrame(ID3Key.TRCK, <<"1", "/", "2">>),
    TextFrame(ID3Key.TRCK, <<>>),
    Frame(ID3Key.TRCK, <<>>, <<>>) }

\* the source container: the value under "data", or no such key
SampleSources == {<<>>} \cup {<<Item(ApiKey.data, v)>> : v \in SampleValues}

\* what the target container holds before the call
SampleTargets == {
    <<>>,
    <<Item(ApiKey.data, Str(<<"o", "l", "d">>))>>,
    <<Item(ID3Key.TRCK, TextFrame(ID3Key.TRCK, <<"9">>))>>,
    <<Item(ApiKey.num, Num(9)), Item(ApiKey.total, Num(9))>> }

InitApi ==
    /\ fmt = "MP3"
    /\ tags \in SampleTargets
    /\ meta = <<>>
    /\ drop = DefaultDrop
    /\ saves = 0
    /\ edits = 0
    /\ log = <<>>
    /\ calls = <<>>
    /\ shared = <<>>
    /\ nodes = <<>>

\* cls(from_, to, *transform, sep='/').run(source, target)
ApiRun ==
    /\ log = <<>>
    /\ \E cls \in RuleClasses, user \in SampleTransforms,
          source \in SampleSources, to \in {ApiKey.data, ID3Key.TRCK} :
          Bind(NewRule(cls, ApiKey.data, to, user, [sep |-> Slash]),
               LAMBDA rule :
             Bind(MapRule_run(rule, source, tags, <<>>), LAMBDA r :
                /\ tags' = r.d
                /\ log' = <<[op |-> "run", cls |-> cls, user |-> user,
                             to |-> to, source |-> source, exc |-> r.exc,
                             trace |-> r.trace, target0 |-> tags,
                             target1 |-> r.d]>>))
    /\ UNCHANGED <<fmt, meta, drop, saves, edits, calls, shared, nodes>>


\* the order of the chain, as stated for each class
StatedChain(cls, user) ==
    CASE cls = "MapRule" -> <<"not_none">> \o user \o <<"not_none">>
      [] cls = "MapWriteRule" ->
            <<"not_none">> \o user \o <<"to_list", "not_none">>
      [] cls = "MP3Read" ->
            <<"not_none", "id3_read">> \o user \o <<"not_none">>
      [] cls = "MP3Write" ->
            <<"not_none">> \o user \o <<"to_list", "not_none", "make_frame">>

\* the result of the x-th call of the trace, made by a rule writing to the
\* key
CallResult(e, x) ==
    Transform([to |-> e.to], e.trace[x][1], e.trace[x][2], [sep |-> Slash])

\* C17: the functions of a rule are called in the stated order: the first
\* gets the source value, each later one the result of the one before it,
\* and no function is called after one that raised; when none raised the
\* whole chain was called and the last result is stored under the target
\* key.
ChainOrder ==
    \A i \in 1..Len(log) :
        (log[i].op = "run" /\ Has(log[i].source, ApiKey.data)) =>
            /\ Len(log[i].trace) \in 1..Len(StatedChain(log[i].cls, log[i].user))
            /\ \A x \in 1..Len(log[i].trace) :
                  /\ log[i].trace[x][1] =
                         StatedChain(log[i].cls, log[i].user)[x]
                  /\ log[i].trace[x][2] =
                         (IF x = 1 THEN Get(log[i].source, ApiKey.data)
                          ELSE CallResult(log[i], x - 1).val)
                  /\ x < Len(log[i].trace) => CallResult(log[i], x).exc = ""
            /\ IF CallResult(log[i], Len(log[i].trace)).exc = ""
               THEN /\ Len(log[i].trace) =
                          Len(StatedChain(log[i].cls, log[i].user))
                    /\ Get(log[i].target1, log[i].to) =
                          CallResult(log[i], Len(log[i].trace)).val
               ELSE Len(log[i].trace) = 1
                    \/ CallResult(log[i], Len(log[i].trace) - 1).exc = ""

\* a run of an MP3Write in which the whole chain was called, the caller's
\* three functions included, and the frame stored
ChainOrderWitness ==
    \E i \in 1..Len(log) :
        /\ log[i].op = "run" /\ log[i].cls = "MP3Write"
        /\ Len(log[i].user) = 3
        /\ Len(log[i].trace) = 7
        /\ Has(log[i].target1, log[i].to)
        /\ Get(log[i].target1, log[i].to).t = "frame"


----------------------------------------------------------------------------
(* pair_read, pair_id3_write and pair_mp4_write. *)

PairFormats == {"mp3", "mp4", "wav"}

\* the rule pair_read builds for the format
pair_read_rule(from_, format) ==
    CASE format = "mp3" ->
            MP3Read(from_, ApiKey.data, <<"split_values">>, [sep |-> Slash])
      [] format = "mp4" ->
            MapRule(from_, ApiKey.data, <<"zeroindex_get", "to_list">>, <<>>)
      [] format = "wav" ->
            MapRule(from_, ApiKey.data, <<"split_values">>, [sep |-> Slash])

\* a reader that sets index 1 whenever index 0 is set
pair_read_both(from_, to_index0, to_index1, format, source, target) ==
    IF format \notin PairFormats THEN [exc |-> "ValueError", d |-> target]
    ELSE Bind(MapRule_run(pair_read_rule(from_, format), source, <<>>, <<>>),
              LAMBDA r :
        IF r.exc # "" THEN [exc |-> r.exc, d |-> target]
        ELSE Bind(IF Has(r.d, ApiKey.data) THEN Get(r.d, ApiKey.data).xs
                  ELSE <<>>, LAMBDA data :
            IF Len(data) = 0 THEN [exc |-> "", d |-> target]
            ELSE [exc |-> "",
                  d |-> Put(Put(target, to_index0, to_int(data[1])),
                            to_index1, to_int(data[Len(data)]))]))

\* pair_read(from_, to_index0, to_index1, format)(source, target): [exc, d]
pair_read(from_, to_index0, to_index1, format, source, target) ==
    IF format \notin PairFormats THEN [exc |-> "ValueError", d |-> target]
    ELSE Bind(MapRule_run(pair_read_rule(from_, format), source, <<>>, <<>>),
              LAMBDA r :
        IF r.exc # "" THEN [exc |-> r.exc, d |-> target]
        ELSE Bind(IF Has(r.d, ApiKey.data) THEN Get(r.d, ApiKey.data).xs
                  ELSE <<>>, LAMBDA data :
            Bind(IF Len(data) > 0
                 THEN Put(target, to_index0, to_int(data[1]))
                 ELSE target, LAMBDA first :
                [exc |-> "",
                 d |-> IF Len(data) > 1
                       THEN Put(first, to_index1, to_int(data[2]))
                       ELSE first])))

\* the packed value a file of the format holds for the numbers: "n/t" in a
\* TRCK frame (mp3), [(n, t)] (mp4), ["n/t"] (wav)
Packed(format, numbers) ==
    Bind(Join(Slash, [i \in 1..Len(numbers) |-> IntToStr(numbers[i])]),
         LAMBDA text :
        CASE format = "mp3" -> TextFrame(ID3Key.TRCK, text)
          [] format = "mp4" ->
                List(<<Tuple([i \in 1..Len(numbers) |-> Num(numbers[i])])>>)
          [] OTHER -> List(<<Str(text)>>))

\* a value that holds no number at all: [''] in a frame, [()], []
PackedEmpty(format) ==
    CASE format = "mp3" -> TextFrame(ID3Key.TRCK, <<>>)
      [] format = "mp4" -> List(<<Tuple(<<>>)>>)
      [] OTHER -> List(<<>>)

\* the numbers packed in the sources drawn: none, one, or a pair
SampleNumbers ==
    {<<>>} \cup {<<n>> : n \in 0..MaxNum}
           \cup {<<n, t>> : n \in 0..MaxNum, t \in {0, 1, 2, MaxNum}}

\* pair_read('data', 'num', 'total', format)(source, target)
ApiPairRead ==
    /\ log = <<>>
    /\ \E format \in PairFormats \cup {"ogg"}, numbers \in SampleNumbers,
          present \in BOOLEAN :
          Bind(IF ~present THEN <<>>
               ELSE <<Item(ApiKey.data,
                           IF numbers = <<>> THEN PackedEmpty(format)
                           ELSE Packed(format, numbers))>>, LAMBDA source :
             Bind(pair_read(ApiKey.data, ApiKey.num, ApiKey.total, format,
                            source, tags), LAMBDA r :
                /\ tags' = r.d
                /\ log' = <<[op |-> "pair_read", format |-> format,
                             numbers |-> IF present THEN numbers ELSE <<>>,
                             source |-> source, exc |-> r.exc,
                             target0 |-> tags, target1 |-> r.d]>>))
    /\ UNCHANGED <<fmt, meta, drop, saves, edits, calls, shared, nodes>>

\* C18: pair_read, for each of mp3, mp4 and wav: an empty packed value or an
\* absent source key leaves the target as it was; a packed pair sets
\* to_index0 to the first and to_index1 to the second number, as integers;
\* to_index1 is set only when there is a second number.
PairReadSets ==
    \A i \in 1..Len(log) :
        (log[i].op = "pair_read" /\ log[i].format \in PairFormats) =>
            /\ log[i].exc = ""
            /\ log[i].target1 =
                  (CASE Len(log[i].numbers) = 0 -> log[i].target0
                     [] Len(log[i].numbers) = 1 ->
                           Put(log[i].target0, ApiKey.num,
                               Num(log[i].numbers[1]))
                     [] OTHER ->
                           Put(Put(log[i].target0, ApiKey.num,
                                   Num(log[i].numbers[1])),
                               ApiKey.total, Num(log[i].numbers[2])))

\* a read of a packed pair into a target that held other numbers, and a
\* read of a single number that left the total alone
PairReadWitness ==
    \E i \in 1..Len(log) :
        /\ log[i].op = "pair_read" /\ log[i].format = "mp3"
        /\ log[i].numbers = <<MaxNum, 2>>
        /\ Get(log[i].target0, ApiKey.total) = Num(9)
        /\ Get(log[i].target1, ApiKey.num) = Num(MaxNum)
        /\ Get(log[i].target1, ApiKey.total) = Num(2)



\* source.get(key, 0)
GetOr0(source, key) == IF Has(source, key) THEN Get(source, key) ELSE Num(0)

\* the rule pair_id3_write builds for the format
pair_id3_write_rule(to, format) ==
    IF format = "mp3"
    THEN MP3Write(ApiKey.data, to, <<"join_list">>, [sep |-> Slash])
    ELSE MapWriteRule(ApiKey.data, to, <<"join_list">>, [sep |-> Slash])

\* pair_id3_write(from_index0, from_index1, to, format)(source, target)
pair_id3_write(from_index0, from_index1, to, format, source, target) ==
    IF format \notin {"mp3", "wav"} THEN [exc |-> "ValueError", d |-> target]
    ELSE Bind(rstrip(<<to_int(GetOr0(source, from_index0)),
                       to_int(GetOr0(source, from_index1))>>), LAMBDA pair :
            Bind(MapRule_run(pair_id3_write_rule(to, format),
                             <<Item(ApiKey.data, List(pair))>>, target, <<>>),
                 LAMBDA r : [exc |-> r.exc, d |-> r.d]))

\* pair_mp4_write(from_index0, from_index1, to)(source, target)
pair_mp4_write(from_index0, from_index1, to, source, target) ==
    Bind(<<to_int(GetOr0(source, from_index0)),
           to_int(GetOr0(source, from_index1))>>, LAMBDA pair :
        Bind(MapRule_run(MapWriteRule(ApiKey.data, to,
                                      <<"to_zeroindex_tuple">>, <<>>),
                         <<Item(ApiKey.data, List(pair))>>, target, <<>>),
             LAMBDA r : [exc |-> r.exc, d |-> r.d]))

\* the Metadata-side source: the fields that are set, as numbers
NumberSources ==
    {<<>>}
    \cup {<<Item(ApiKey.num, Num(n))>> : n \in 0..MaxNum}
    \cup {<<Item(ApiKey.total, Num(t))>> : t \in {0, 2}}
    \cup {<<Item(ApiKey.num, Num(n)), Item(ApiKey.total, Num(t))>> :
              n \in 0..MaxNum, t \in {0, 1, 2, MaxNum}}

\* pair_id3_write('num', 'total', to, format)(source, target)
ApiPairId3Write ==
    /\ log = <<>>
    /\ \E format \in {"mp3", "wav", "mp4"}, source \in NumberSources,
          to \in {ApiKey.data, ID3Key.TRCK} :
          Bind(pair_id3_write(ApiKey.num, ApiKey.total, to, format, source,
                              tags), LAMBDA r :
             /\ tags' = r.d
             /\ log' = <<[op |-> "pair_id3_write", format |-> format,
                          to |-> to, source |-> source, exc |-> r.exc,
                          target0 |-> tags, target1 |-> r.d]>>)
    /\ UNCHANGED <<fmt, meta, drop, saves, edits, calls, shared, nodes>>

\* pair_mp4_write('num', 'total', to)(source, target)
ApiPairMp4Write ==
    /\ log = <<>>
    /\ \E source \in NumberSources, to \in {ApiKey.data, ID3Key.TRCK} :
          Bind(pair_mp4_write(ApiKey.num, ApiKey.total, to, source, tags),
               LAMBDA r :
             /\ tags' = r.d
             /\ log' = <<[op |-> "pair_mp4_write", format |-> "mp4",
                          to |-> to, source |-> source, exc |-> r.exc,
                          target0 |-> tags, target1 |-> r.d]>>)
    /\ UNCHANGED <<fmt, meta, drop, saves, edits, calls, shared, nodes>>

IsPairWrite(e) ==
    \/ e.op = "pair_id3_write" /\ e.format \in {"mp3", "wav"}
    \/ e.op = "pair_mp4_write"

\* the number and the total of the source of a pair write, 0 when absent
NumberOf(e) == GetOr0(e.source, ApiKey.num).n
TotalOf(e) == GetOr0(e.source, ApiKey.total).n

\* the text "n/t" of the source of a pair write
PairTextOf(e) == Str(PairText(NumberOf(e), TotalOf(e)))

\* C19: for a source with number n and total t, both positive,
\* pair_id3_write (mp3 and wav) stores the list ["n/t"] under the target key
\* and pair_mp4_write stores [(n, t)]; when both are absent or zero the
\* target key is deleted and nothing is stored.
PairWriteStoresList ==
    \A i \in 1..Len(log) :
        IsPairWrite(log[i]) =>
            /\ (NumberOf(log[i]) > 0 /\ TotalOf(log[i]) > 0) =>
                  log[i].target1 =
                      Put(log[i].target0, log[i].to,
                          IF log[i].op = "pair_mp4_write"
                          THEN List(<<Tuple(<<Num(NumberOf(log[i])),
                                              Num(TotalOf(log[i]))>>)>>)
                          ELSE List(<<PairTextOf(log[i])>>))
            /\ (NumberOf(log[i]) = 0 /\ TotalOf(log[i]) = 0) =>
                  log[i].target1 = Remove(log[i].target0, log[i].to)

\* C19, as the code has it: the wav writer stores ["n/t"] and the mp4 writer
\* [(n, t)]; the mp3 writer stores the ID3 frame of the class the target key
\* names, with text ["n/t"], and deletes the key when it names no frame
\* class; when both fields are absent or zero every writer deletes the key.
PairWriteStores ==
    \A i \in 1..Len(log) :
        IsPairWrite(log[i]) =>
            /\ log[i].exc = ""
            /\ (NumberOf(log[i]) > 0 /\ TotalOf(log[i]) > 0) =>
                  log[i].target1 =
                      (CASE log[i].op = "pair_mp4_write" ->
                              Put(log[i].target0, log[i].to,
                                  List(<<Tuple(<<Num(NumberOf(log[i])),
                                                  Num(TotalOf(log[i]))>>)>>))
                         [] log[i].format = "wav" ->
                              Put(log[i].target0, log[i].to,
                                  List(<<PairTextOf(log[i])>>))
                         [] IsFrameClass(log[i].to) ->
                              Put(log[i].target0, log[i].to,
                                  TextFrame(log[i].to, PairTextOf(log[i]).s))
                         [] OTHER -> Remove(log[i].target0, log[i].to))
            /\ (NumberOf(log[i]) = 0 /\ TotalOf(log[i]) = 0) =>
                  log[i].target1 = Remove(log[i].target0, log[i].to)

\* an mp3 write of the pair 3/MaxNum that replaced the TRCK frame the target
\* held by a frame with the text "3/MaxNum"
PairWriteWitness ==
    \E i \in 1..Len(log) :
        /\ IsPairWrite(log[i]) /\ Has(log[i].target0, log[i].to)
        /\ log[i].format = "mp3" /\ log[i].to = ID3Key.TRCK
        /\ NumberOf(log[i]) = 3 /\ TotalOf(log[i]) = MaxNum
        /\ Get(log[i].target1, ID3Key.TRCK).t = "frame"
        /\ Get(log[i].target1, ID3Key.TRCK).text = <<PairTextOf(log[i])>>

NextApi == ApiRun \/ ApiPairRead \/ ApiPairId3Write \/ ApiPairMp4Write

SpecApi == InitApi /\ [][NextApi]_vars

-----------------------------------------------------------------------------
\* booktag.utils.tree: Node, a vertex of a rooted tree.  A node is named by
\* its identity (an index into nodes); its fields are _value, _parent and
\* _children.  Observers are not modelled: none is attached.

MaxNodes == 3      \* Node objects alive
MaxValue == 2      \* node values are drawn from 1..MaxValue
NoParent == 0      \* _parent is None
MaxTreeCalls == 4  \* calls of append, remove and set_value in one run

NodeIds == 1 .. MaxNodes
NodeValues == 1 .. MaxValue

\* Node(value): _value = value, _parent = None, _children = []
Node(value) == [value |-> value, parent |-> NoParent, children |-> <<>>]

\* Node.__eq__ for two nodes: equal values
Node_eq(ns, a, b) == ns[a].value = ns[b].value

\* Node.index: the first position whose child is the node or is equal to it;
\* positions count from 1 here, and 0 stands for the ValueError
Node_index(ns, self, node) ==
    Bind({i \in 1 .. Len(ns[self].children) :
              \/ node = ns[self].children[i]
              \/ Node_eq(ns, node, ns[self].children[i])},
         LAMBDA found :
             IF found = {} THEN 0
             ELSE CHOOSE i \in found : \A j \in found : i <= j)

\* Node.__contains__
Node_contains(ns, self, node) == Node_index(ns, self, node) # 0

\* list.pop(index) on a list of children
PopAt(children, i) ==
    [j \in 1 .. Len(children) - 1 |->
         IF j < i THEN children[j] ELSE children[j + 1]]

\* Node.remove: pops the child index() finds and clears that child's parent
Node_remove(ns, self, node) ==
    Bind(Node_index(ns, self, node), LAMBDA i :
        IF i = 0 THEN [exc |-> "ValueError", ns |-> ns, child |-> NoParent]
        ELSE Bind(ns[self].children[i], LAMBDA child :
                 [exc |-> "",
                  ns |-> [[ns EXCEPT ![self].children = PopAt(@, i)]
                              EXCEPT ![child].parent = NoParent],
                  child |-> child]))

\* the tail of Node.append: node.set_parent(self); self._children.append(node)
Node_adopt(ns, self, node) ==
    [[ns EXCEPT ![node].parent = self]
         EXCEPT ![self].children = Append(@, node)]

\* Node.append
Node_append(ns, self, node) ==
    IF Node_contains(ns, self, node)
        THEN [exc |-> "ValueError", ns |-> ns]
    ELSE IF ns[node].parent # NoParent
        THEN Bind(Node_remove(ns, ns[node].parent, node), LAMBDA r :
                 IF r.exc # "" THEN [exc |-> r.exc, ns |-> ns]
                 ELSE [exc |-> "", ns |-> Node_adopt(r.ns, self, node)])
    ELSE [exc |-> "", ns |-> Node_adopt(ns, self, node)]

\* Node.set_value
Node_set_value(ns, self, value) == [ns EXCEPT ![self].value = value]

\* the node k parent links above node n, NoParent past a root
RECURSIVE NthParent(_, _, _)
NthParent(ns, n, k) ==
    IF n = NoParent \/ k = 0 THEN n
    ELSE NthParent(ns, ns[n].parent, k - 1)

\* Node.get_root returns: the walk over parent links ends at a root
ReachesRoot(ns, n) == NthParent(ns, n, MaxNodes) = NoParent

\* number of positions of a list of children that hold node n
Occurs(children, n) == Cardinality({i \in 1 .. Len(children) : children[i] = n})

InitTree ==
    /\ fmt = "MP3"
    /\ tags = <<>>
    /\ meta = <<>>
    /\ drop = DefaultDrop
    /\ saves = 0
    /\ edits = 0
    /\ log = <<>>
    /\ calls = <<>>
    /\ shared = <<>>
    /\ nodes \in [NodeIds -> {Node(v) : v \in NodeValues}]

\* calls made so far
TreeCalls == IF log = <<>> THEN 0 ELSE log[1].count

\* the record of one call: its number, arguments, outcome and the nodes
\* before and after it
TreeCall(op, self, node, exc, after) ==
    [op |-> op, self |-> self, node |-> node, exc |-> exc,
     before |-> nodes, after |-> after, count |-> TreeCalls + 1]

\* self.append(node)
TreeAppend ==
    /\ TreeCalls < MaxTreeCalls
    /\ \E self \in NodeIds, node \in NodeIds :
        Bind(Node_append(nodes, self, node), LAMBDA r :
            /\ nodes' = r.ns
            /\ log' = <<TreeCall("append", self, node, r.exc, r.ns)>>
            /\ UNCHANGED <<fmt, tags, meta, drop, saves, edits, calls, shared>>)

\* self.remove(node)
TreeRemove ==
    /\ TreeCalls < MaxTreeCalls
    /\ \E self \in NodeIds, node \in NodeIds :
        Bind(Node_remove(nodes, self, node), LAMBDA r :
            /\ nodes' = r.ns
            /\ log' = <<TreeCall("remove", self, node, r.exc, r.ns)>>
            /\ UNCHANGED <<fmt, tags, meta, drop, saves, edits, calls, shared>>)

\* self.set_value(value)
TreeSetValue ==
    /\ TreeCalls < MaxTreeCalls
    /\ \E self \in NodeIds, value \in NodeValues :
        /\ nodes' = Node_set_value(nodes, self, value)
        /\ log' = <<TreeCall("set_value", self, self, "", nodes')>>
        /\ UNCHANGED <<fmt, tags, meta, drop, saves, edits, calls, shared>>

NextTree == TreeAppend \/ TreeRemove \/ TreeSetValue

SpecTree == InitTree /\ [][NextTree]_vars

\* the nodes form a forest: parent and children agree, a node occurs once,
\* under one node only, and the parent links of every node end at a root
IsForest(ns) ==
    /\ \A n \in NodeIds, p \in NodeIds :
           /\ ns[n].parent = p <=> Occurs(ns[p].children, n) >= 1
           /\ Occurs(ns[p].children, n) <= 1
    /\ \A n \in NodeIds, p \in NodeIds, q \in NodeIds :
           Occurs(ns[p].children, n) >= 1 /\ Occurs(ns[q].children, n) >= 1
               => p = q
    /\ \A n \in NodeIds : ReachesRoot(ns, n)

\* a successful append of a node that had a parent took it out of the old
\* parent's children
AppendReparents(e) ==
    (e.op = "append" /\ e.exc = "" /\ e.before[e.node].parent # NoParent)
        => Occurs(e.after[e.before[e.node].parent].children, e.node)
               = (IF e.before[e.node].parent = e.self THEN 1 ELSE 0)

\* append of a node equal by value to a child raises and changes nothing
AppendOfEqualRaises(e) ==
    (e.op = "append"
        /\ \E i \in 1 .. Len(e.before[e.self].children) :
               Node_eq(e.before, e.node, e.before[e.self].children[i]))
        => e.exc = "ValueError" /\ e.after = e.before

\* remove of a node that is not a child (neither the node nor a node equal
\* to it is among the children) raises and changes nothing
RemoveOfAbsentRaises(e) ==
    (e.op = "remove"
        /\ \A i \in 1 .. Len(e.before[e.self].children) :
               /\ e.before[e.self].children[i] # e.node
               /\ ~Node_eq(e.before, e.node, e.before[e.self].children[i]))
        => e.exc = "ValueError" /\ e.after = e.before

\* C20: after any sequence of append, remove and set_value calls the nodes
\* form a forest (a node's parent is p exactly when it occurs, once, in p's
\* children; no node is a child of two nodes; the parent links of every node
\* reach a root); an append of a node that has a parent removes it from the
\* old parent's children; an append of a node equal by value to a child and
\* a remove of a node that is not a child raise ValueError and change nothing.
NodesFormForest ==
    /\ IsForest(nodes)
    /\ \A i \in 1 .. Len(log) :
           log[i].op \in {"append", "remove", "set_value"} =>
               /\ AppendReparents(log[i])
               /\ AppendOfEqualRaises(log[i])
               /\ RemoveOfAbsentRaises(log[i])

-----------------------------------------------------------------------------
(* One rule at a time.  from_file and export are followed rule by rule:    *)
(* tags is audio.tags in memory, meta the Metadata of the call (the new    *)
(* record of from_file, the metadata argument of export), and log holds    *)
(* the record of the last step only.                                       *)

MaxFields == 3     \* fields of the metadata argument of export

\* fields the metadata argument of export may hold.  A Metadata refuses the
\* numbers 0 and -3; a plain mapping passed to export holds them.
SampleFields == <<
    Item("album", Str(<<"a">>)),
    Item("album", Str(<<" ">>)),
    Item("grouping", Str(<<"g">>)),
    Item("grouping", Str(<<>>)),
    Item("albumsort", Num(2)),
    Item("tracknum", Num(3)),
    Item("tracknum", Num(0)),
    Item("tracknum", Num(-3)),
    Item("tracktotal", Num(12)),
    Item("tracktotal", Num(0)),
    Item("artist", List(<<Str(<<"x">>), Str(<<"y">>)>>)),
    Item(COVER, JpegFront),
    Item(COVER, NotAnImage),
    Item(COVER, ImageStream_from_file(PngBack).val) >>

WriteSources ==
    {d \in {Pick(SampleFields, I) :
                I \in {J \in SUBSET (1..Len(SampleFields)) :
                           Cardinality(J) <= MaxFields}} : UniqueKeys(d)}

\* a file that already holds a value under the keys the write rules target
StaleTags(format) ==
    CASE format = "MP3" -> <<
            Item(ID3Key.TALB, TextFrame(ID3Key.TALB, <<"o">>)),
            Item(ID3Key.GRP1, TextFrame(ID3Key.GRP1, <<"o">>)),
            Item(ID3Key.TIT1, TextFrame(ID3Key.TIT1, <<"o">>)),
            Item(ID3Key.TPE1, TextFrame(ID3Key.TPE1, <<"o">>)),
            Item(ID3Key.TSOA, TextFrame(ID3Key.TSOA, <<"o">>)),
            Item(ID3Key.TRCK, TextFrame(ID3Key.TRCK, <<"1", "/", "1">>)),
            Item(ID3Key.APIC \o Colon,
                 Apic(ContainerPictureType("COVER_FRONT"), <<>>, PngBack)),
            Item(ID3Key.APIC \o Colon \o <<"x">>,
                 Apic(ContainerPictureType("OTHER"), <<"x">>, PngBack)),
            Item(ID3Key.TENC, TextFrame(ID3Key.TENC, <<"e">>)) >>
      [] format = "MP4" -> <<
            Item(MP4Key.alb, List(<<Str(<<"o">>)>>)),
            Item(MP4Key.grp, List(<<Str(<<"o">>)>>)),
            Item(MP4Key.ART, List(<<Str(<<"o">>)>>)),
            Item(MP4Key.soal, List(<<Str(<<"o">>)>>)),
            Item(MP4Key.trkn, List(<<Tuple(<<Num(1), Num(1)>>)>>)),
            Item(MP4Key.covr, List(<<MP4Cover(PngBack, 14),
                                     MP4Cover(PngBack, 14)>>)),
            Item(MP4Key.too, List(<<Str(<<"e">>)>>)) >>
      [] OTHER -> <<
            Item(OggKey.album, List(<<Str(<<"o">>)>>)),
            Item(OggKey.grouping, List(<<Str(<<"o">>)>>)),
            Item(OggKey.artist, List(<<Str(<<"o">>)>>)),
            Item(OggKey.albumsort, List(<<Str(<<"o">>)>>)),
            Item(OggKey.tracknumber, List(<<Str(<<"1">>)>>)),
            Item(OggKey.metadata_block_picture,
                 List(<<B64(Picture(ContainerPictureType("COVER_FRONT"), <<>>,
                                    PngBack)),
                        B64(Picture(ContainerPictureType("OTHER"), <<"x">>,
                                    PngBack))>>)),
            Item(OggKey.encoder, List(<<Str(<<"e">>)>>)) >>

WriteTargets(format) == {<<>>, StaleTags(format)}

TotalTracks == <<"t", "o", "t", "a", "l", "t", "r", "a", "c", "k", "s">>
TotalDisks == <<"t", "o", "t", "a", "l", "d", "i", "s", "k", "s">>

\* further tags of the files to read: the two frames that feed grouping,
\* pairs of numbers with a part missing, zero or not a number, and a
\* picture that is no image ranked before one that is
ExtraReadTags(format) ==
    CASE format = "MP3" -> <<
            Item(ID3Key.GRP1, TextFrame(ID3Key.GRP1, <<"g">>)),
            Item(ID3Key.TIT1, TextFrame(ID3Key.TIT1, <<"t">>)),
            Item(ID3Key.TIT1, Frame(ID3Key.TIT1, <<>>, <<>>)),
            Item(ID3Key.TRCK, TextFrame(ID3Key.TRCK, <<"3">>)),
            Item(ID3Key.TRCK, TextFrame(ID3Key.TRCK, <<"/", "1", "2">>)),
            Item(ID3Key.TRCK, TextFrame(ID3Key.TRCK, <<"0", "/", "1", "2">>)),
            Item(ID3Key.TRCK, TextFrame(ID3Key.TRCK, <<"x", "/", "1", "2">>)),
            Item(ID3Key.TRCK, TextFrame(ID3Key.TRCK, <<"3", "/", "x">>)),
            Item(ID3Key.APIC \o Colon,
                 Apic(ContainerPictureType("COVER_FRONT"), <<>>, NotAnImage)),
            Item(ID3Key.APIC \o Colon \o <<"x">>,
                 Apic(ContainerPictureType("OTHER"), <<"x">>, PngBack)) >>
      [] format = "MP4" -> <<
            Item(MP4Key.grp, List(<<Str(<<"g">>)>>)),
            Item(MP4Key.trkn, List(<<Tuple(<<Num(3), Num(0)>>)>>)),
            Item(MP4Key.trkn, List(<<Tuple(<<Num(0), Num(12)>>)>>)),
            Item(MP4Key.trkn, List(<<Tuple(<<Num(3)>>)>>)),
            Item(MP4Key.covr, List(<<MP4Cover(NotAnImage, 13),
                                     MP4Cover(PngBack, 14)>>)) >>
      [] OTHER -> <<
            Item(OggKey.grouping, List(<<Str(<<"g">>)>>)),
            Item(OggKey.tracktotal, List(<<Str(<<"1", "2">>)>>)),
            Item(TotalTracks, List(<<Str(<<"9">>)>>)),
            Item(TotalTracks, List(<<>>)),
            Item(OggKey.metadata_block_picture,
                 List(<<B64(Picture(ContainerPictureType("COVER_FRONT"), <<>>,
                                    NotAnImage)),
                        B64(Picture(ContainerPictureType("OTHER"), <<"x">>,
                                    PngBack))>>)) >>

\* files to read: the sample files, and files of the further tags
ReadFiles(format) ==
    SampleFiles(format) \cup
    Bind(ExtraReadTags(format), LAMBDA extra :
        {d \in {Pick(extra, I) : I \in SUBSET (1..Len(extra))} :
            UniqueKeys(d)})

InitRule ==
    /\ fmt \in Supported
    /\ \/ tags \in ReadFiles(fmt) /\ meta = <<>>
       \/ tags \in WriteTargets(fmt) /\ meta \in WriteSources
    /\ drop = DefaultDrop
    /\ saves = 0
    /\ edits = 0
    /\ log = <<>>
    /\ calls = <<>>
    /\ shared = <<>>
    /\ nodes = <<>>

\* booktag.app.tagcontainer: the names filtered as strings, as lists of
\* strings and as integers
TagsStrNames == {"album", "comment", "grouping", "label", "title"}
TagsListNames == {"albumartist", "artist", "composer", "genre"}
TagsIntNames == {"albumsort", "date", "discnumber", "disctotal",
                 "originaldate", "tracknumber", "tracktotal"}

\* _filters[key](value): [exc, val]
Tags_filter(key, value) ==
    CASE key \in TagsStrNames ->
            IF value.t = "str" THEN Ok(value)
            ELSE IF value.t \in {"list", "tuple"}
            THEN Ok(Str(Join(<<" ">>, [i \in 1..Len(value.xs) |->
                                          PyStr(value.xs[i])])))
            ELSE Ok(Str(PyStr(value)))
      [] key \in TagsListNames ->
            IF value.t \in {"list", "tuple"}
            THEN Ok(List([i \in 1..Len(value.xs) |-> Str(PyStr(value.xs[i]))]))
            ELSE Ok(List(<<Str(PyStr(value))>>))
      [] key \in TagsIntNames ->
            Bind(PyInt(value), LAMBDA r :
                IF r.ok THEN Ok(Num(r.n)) ELSE Raise("ValueError"))
      [] OTHER -> Ok(value)

\* Tags.__setitem__: [exc, d]
Tags_setitem(d, key, value) ==
    IF IsNone(value) THEN [exc |-> "", d |-> Remove(d, key)]
    ELSE Bind(Tags_filter(key, value), LAMBDA r :
            IF r.exc # "" THEN [exc |-> r.exc, d |-> d]
            ELSE [exc |-> "", d |-> Put(d, key, r.val)])

\* the assignments of a rule, made to the Tags record in their order
RECURSIVE Tags_assign(_, _, _)
Tags_assign(d, items, i) ==
    IF i > Len(items) THEN [exc |-> "", d |-> d]
    ELSE Bind(Tags_setitem(d, items[i].k, items[i].v), LAMBDA r :
            IF r.exc # "" THEN r ELSE Tags_assign(r.d, items, i + 1))

\* the rules of the mutagenapi read mappings
ApiMap(rule) == [kind |-> "MapRule", rule |-> rule, to |-> <<rule.to>>]
ApiPair(from_, to_index0, to_index1, format) ==
    [kind |-> "pair_read", rule |-> pair_read_rule(from_, format),
     to |-> <<to_index0, to_index1>>, format |-> format]

Space == <<" ">>
CommaAmp == <<",", "&">>
CommaSlash == <<",", "/">>

ApiMP3ReadMapping == <<
    ApiMap(MP3Read(ID3Key.TALB, "album", <<"join_list">>, [sep |-> Space])),
    ApiMap(MP3Read(ID3Key.TDRC, "date", <<"zeroindex_get", "to_int">>, <<>>)),
    ApiMap(MP3Read(ID3Key.GRP1, "grouping", <<"zeroindex_get">>, <<>>)),
    ApiMap(MP3Read(ID3Key.TIT1, "grouping", <<"zeroindex_get">>, <<>>)),
    ApiMap(MP3Read(ID3Key.TIT2, "title", <<"join_list">>, [sep |-> Space])),
    ApiMap(MP3Read(ID3Key.TPE1, "artist", <<"split_values">>,
                   [sep |-> CommaAmp])),
    ApiMap(MP3Read(ID3Key.TPE2, "albumartist", <<"split_values">>,
                   [sep |-> CommaAmp])),
    ApiMap(MP3Read(ID3Key.TCOM, "composer", <<"split_values">>,
                   [sep |-> <<",">>])),
    ApiMap(MP3Read(ID3Key.TCON, "genre", <<"split_values">>,
                   [sep |-> CommaSlash])),
    ApiMap(MP3Read(ID3Key.TPUB, "label", <<"zeroindex_get">>, <<>>)),
    ApiPair(ID3Key.TRCK, "tracknumber", "tracktotal", "mp3"),
    ApiPair(ID3Key.TPOS, "discnumber", "disctotal", "mp3") >>

ApiMP4ReadMapping == <<
    ApiMap(MapRule(MP4Key.alb, "album", <<"join_list">>, [sep |-> Space])),
    ApiMap(MapRule(MP4Key.day, "date", <<"zeroindex_get", "to_int">>, <<>>)),
    ApiMap(MapRule(MP4Key.grp, "grouping", <<"zeroindex_get">>, <<>>)),
    ApiMap(MapRule(MP4Key.nam, "title", <<"join_list">>, [sep |-> Space])),
    ApiMap(MapRule(MP4Key.ART, "artist", <<"split_values">>,
                   [sep |-> CommaAmp])),
    ApiMap(MapRule(MP4Key.aART, "albumartist", <<"split_values">>,
                   [sep |-> CommaAmp])),
    ApiMap(MapRule(MP4Key.wrt, "composer", <<"split_values">>,
                   [sep |-> CommaAmp])),
    ApiMap(MapRule(MP4Key.gen, "genre", <<"split_values">>,
                   [sep |-> CommaSlash])),
    ApiPair(MP4Key.trkn, "tracknumber", "tracktotal", "mp4"),
    ApiPair(MP4Key.disk, "discnumber", "disctotal", "mp4") >>

ApiOggReadMapping == <<
    ApiMap(MapRule(OggKey.album, "album", <<"join_list">>, [sep |-> Space])),
    ApiMap(MapRule(OggKey.date, "date", <<"zeroindex_get", "to_int">>, <<>>)),
    ApiMap(MapRule(OggKey.grouping, "grouping", <<"zeroindex_get">>, <<>>)),
    ApiMap(MapRule(OggKey.title, "title", <<"join_list">>, [sep |-> Space])),
    ApiMap(MapRule(OggKey.artist, "artist", <<"split_values">>,
                   [sep |-> CommaAmp])),
    ApiMap(MapRule(OggKey.albumartist, "albumartist", <<"split_values">>,
                   [sep |-> CommaAmp])),
    ApiMap(MapRule(OggKey.composer, "composer", <<"split_values">>,
                   [sep |-> CommaAmp])),
    ApiMap(MapRule(OggKey.genre, "genre", <<"split_values">>,
                   [sep |-> CommaSlash])),
    ApiMap(MapRule(OggKey.label, "label", <<"zeroindex_get">>, <<>>)),
    ApiMap(MapRule(OggKey.tracknumber, "tracknumber",
                   <<"zeroindex_get", "to_int">>, <<>>)),
    ApiMap(MapRule(OggKey.tracktotal, "tracktotal",
                   <<"zeroindex_get", "to_int">>, <<>>)),
    ApiMap(MapRule(TotalTracks, "tracktotal",
                   <<"zeroindex_get", "to_int">>, <<>>)),
    ApiMap(MapRule(OggKey.discnumber, "discnumber",
                   <<"zeroindex_get", "to_int">>, <<>>)),
    ApiMap(MapRule(OggKey.disctotal, "disctotal",
                   <<"zeroindex_get", "to_int">>, <<>>)),
    ApiMap(MapRule(TotalDisks, "disctotal",
                   <<"zeroindex_get", "to_int">>, <<>>)) >>

\* _get_mapping(audiofile, isread=True)
_get_mapping(format) ==
    CASE format = "MP3" -> ApiMP3ReadMapping
      [] format = "MP4" -> ApiMP4ReadMapping
      [] OTHER -> ApiOggReadMapping

\* what the reader assigns: the items of a dict it is run on, in the order
\* of the assignments: [exc, d]
reader_assigns(reader, source) ==
    IF reader.kind = "pair_read"
    THEN pair_read(reader.rule.from_, reader.to[1], reader.to[2],
                   reader.format, source, <<>>)
    ELSE Bind(MapRule_run(reader.rule, source, <<>>, <<>>), LAMBDA r :
            [exc |-> r.exc, d |-> r.d])

\* a reader that clears its field when it has nothing to store
reader_run_clears(reader, source, metadata) ==
    Bind(reader_assigns(reader, source), LAMBDA r :
        IF r.exc # "" THEN [exc |-> r.exc, d |-> metadata]
        ELSE IF r.d = <<>>
        THEN [exc |-> "", d |-> Remove(metadata, reader.to[1])]
        ELSE Tags_assign(metadata, r.d, 1))

\* reader(audiofile.tags, metadata) with metadata a Tags record: [exc, d]
reader_run(reader, source, metadata) ==
    Bind(reader_assigns(reader, source), LAMBDA r :
        IF r.exc # "" THEN [exc |-> r.exc, d |-> metadata]
        ELSE Tags_assign(metadata, r.d, 1))

\* the rules the call in progress iterates over
StepRules(op) ==
    CASE op = "read" -> _resolve_audiotype(fmt).read
      [] op = "api_read" -> _get_mapping(fmt)
      [] OTHER -> _resolve_audiotype(fmt).write.rules

\* the record of a step: the call, the index of the rule (0: the part of
\* the call before its loop), the exception that left the rule, whether
\* its _execute skipped, and the source and target dicts before and after
Step(op, i, exc, skipped, source0, source1, target0, target1) ==
    [op |-> op, i |-> i, exc |-> exc, skipped |-> skipped,
     source0 |-> source0, source1 |-> source1,
     target0 |-> target0, target1 |-> target1]

\* the loop of the call op goes on to the next rule
NextRule(op) ==
    /\ log # <<>>
    /\ log[1].op = op
    /\ log[1].i < Len(StepRules(op))
    /\ ~leaves_loop(log[1].exc)

\* a lookup that takes the key out of the source
source_pop(source, key) == Remove(source.d, key)

\* the source mapping after source.get(key, None) or source.getall(key),
\* the one call a rule makes on its source
source_get(source, key) == source.d

\* the source mapping after the lookups the rule makes, in their order:
\* ToPairTag and AlbumsortTag stop at a first field that skips
source_after(rule, source) ==
    CASE rule.kind \in {"MoveTag", "PairTag"} ->
            source_get(source, rule.from)
      [] rule.kind = "ToPairTag" ->
            Bind(Container(source.kind, source_get(source, rule.from[1])),
                 LAMBDA after :
                IF ToPairTag_index(source, rule.from[1]).exc # ""
                THEN after.d
                ELSE source_get(after, rule.from[2]))
      [] rule.kind = "AlbumsortTag" ->
            Bind(Container(source.kind, source_get(source, "grouping")),
                 LAMBDA after :
                IF AlbumsortTag_candidate(source, "grouping").exc # ""
                THEN after.d
                ELSE source_get(
                         Container(source.kind,
                                   source_get(after, "albumsort")),
                         "album"))
      [] rule.kind = "PictureIn" -> source_get(source, COVER)
      [] rule.kind = "PictureOut" -> source_get(source, rule.key)

\* from_file up to its loop: metadata = streams.Metadata()
ReadBegin ==
    /\ log = <<>>
    /\ meta' = <<>>
    /\ log' = <<Step("read", 0, "", FALSE, tags, tags, meta, meta')>>
    /\ UNCHANGED <<fmt, tags, drop, saves, edits, calls, shared, nodes>>

\* one turn of the loop of from_file: rule(audio.tags, metadata)
ReadRule ==
    /\ NextRule("read")
    /\ Bind(StepRules("read")[log[1].i + 1], LAMBDA rule :
        Bind(_execute(rule, Container(TagsKind(fmt), tags),
                      Container("Metadata", meta)), LAMBDA e :
            Bind(run_rule(rule, Container("Metadata", meta), e), LAMBDA r :
                /\ meta' = r.d
                /\ tags' = source_after(rule, Container(TagsKind(fmt), tags))
                /\ log' = <<Step("read", log[1].i + 1, r.exc, RuleSkips(e),
                                 tags, tags', meta, r.d)>>)))
    /\ UNCHANGED <<fmt, drop, saves, edits, calls, shared, nodes>>

\* export up to its loop: the drop step
WriteBegin ==
    /\ log = <<>>
    /\ tags' = drop_useless(tags, _resolve_audiotype(fmt).write, drop)
    /\ log' = <<Step("write", 0, "", FALSE, meta, meta, tags, tags')>>
    /\ UNCHANGED <<fmt, meta, drop, saves, edits, calls, shared, nodes>>

\* one turn of the loop of export: rule(metadata, audio.tags)
WriteRule ==
    /\ NextRule("write")
    /\ Bind(StepRules("write")[log[1].i + 1], LAMBDA rule :
        Bind(_execute(rule, Container("Metadata", meta),
                      Container(TagsKind(fmt), tags)), LAMBDA e :
            Bind(run_rule(rule, Container(TagsKind(fmt), tags), e), LAMBDA r :
                /\ tags' = r.d
                /\ meta' = source_after(rule, Container("Metadata", meta))
                /\ log' = <<Step("write", log[1].i + 1, r.exc, RuleSkips(e),
                                 meta, meta', tags, r.d)>>)))
    /\ UNCHANGED <<fmt, drop, saves, edits, calls, shared, nodes>>

\* read_meta up to its loop: metadata = tags.Tags()
ApiReadBegin ==
    /\ log = <<>>
    /\ meta' = <<>>
    /\ log' = <<Step("api_read", 0, "", FALSE, tags, tags, meta, meta')>>
    /\ UNCHANGED <<fmt, tags, drop, saves, edits, calls, shared, nodes>>

\* one turn of the loop of read_meta: reader(audiofile.tags, metadata)
ApiReadRule ==
    /\ NextRule("api_read")
    /\ Bind(StepRules("api_read")[log[1].i + 1], LAMBDA reader :
        Bind(reader_run(reader, tags, meta), LAMBDA r :
            /\ meta' = r.d
            /\ log' = <<Step("api_read", log[1].i + 1, r.exc,
                             reader_assigns(reader, tags).d = <<>>,
                             tags, tags, meta, r.d)>>))
    /\ UNCHANGED <<fmt, tags, drop, saves, edits, calls, shared, nodes>>

NextRules ==
    \/ ReadBegin \/ ReadRule \/ WriteBegin \/ WriteRule
    \/ ApiReadBegin \/ ApiReadRule

SpecRule == InitRule /\ [][NextRules]_vars

\* the step ran a rule of the kind, of the call op
RanRule(e, op, kind) ==
    e.op = op /\ e.i > 0 /\ StepRules(op)[e.i].kind = kind

\* what the container holds under the key: the frames of ID3Tags.getall,
\* the value of a dict
Held(d, key) ==
    IF TagsKind(fmt) = "ID3" THEN getall(d, key)
    ELSE IF Has(d, key) THEN <<Get(d, key)>> ELSE <<>>

\* the outcome of the filter chain of a MoveTag on the source of the step
ChainOf(rule, source) ==
    IF Has(source, rule.from) THEN _filter(rule.filters, Get(source, rule.from))
    ELSE Raise("SkipTagError")

\* C21: a MoveTag of a write whose source field is absent or whose filter
\* chain skips leaves nothing under its target key and raises nothing; when
\* the chain yields a value, the target key holds that value afterwards.
MoveTagWrites ==
    \A n \in 1..Len(log) :
        RanRule(log[n], "write", "MoveTag") =>
            Bind(StepRules("write")[log[n].i], LAMBDA rule :
                Bind(ChainOf(rule, log[n].source0), LAMBDA chain :
                    /\ chain.exc = "SkipTagError" =>
                          /\ log[n].exc = ""
                          /\ Held(log[n].target1, rule.to) = <<>>
                    /\ chain.exc = "" =>
                          /\ log[n].exc = ""
                          /\ Held(log[n].target1, rule.to) = <<chain.val>>))

\* an album of blanks made the TALB rule skip and the stale TALB frame went
\* away, and an artist list was written over the stale TPE1 frame
MoveTagWritesWitness ==
    /\ fmt = "MP3"
    /\ Len(log) = 1
    /\ RanRule(log[1], "write", "MoveTag")
    /\ StepRules("write")[log[1].i].to = ID3Key.TPE1
    /\ Get(meta, "album") = Str(<<" ">>)
    /\ ~Has(tags, ID3Key.TALB)
    /\ Get(log[1].target0, ID3Key.TPE1) = TextFrame(ID3Key.TPE1, <<"o">>)
    /\ Get(tags, ID3Key.TPE1) = TextFrame(ID3Key.TPE1, <<"x", ",", " ", "y">>)


\* the calls that read a file: from_file and read_meta
ReadOps == {"read", "api_read"}

\* the source of a read rule is absent, or its filter chain skips: for a
\* PictureOut, no picture is stored under its key
ReadRuleSkips(op, rule, source) ==
    IF op = "api_read"
    THEN \/ ~Has(source, rule.rule.from_)
         \/ MapRule_loop(rule.rule, 1, Get(source, rule.rule.from_),
                         rule.rule.kwargs, <<>>).exc = "SkipTagError"
    ELSE IF rule.kind = "PictureOut"
    THEN picture_get_tag(Container(TagsKind(fmt), source), rule.key, TRUE).val.xs = <<>>
    ELSE ChainOf(rule, source).exc = "SkipTagError"

\* C22: on a read, a rule whose source key is absent or whose filter chain
\* skips leaves the Metadata record exactly as it was before the rule ran:
\* its field stays unset if it was unset and no stored value is removed.
ReadSkipKeepsRecord ==
    \A n \in 1..Len(log) :
        (/\ log[n].op \in ReadOps /\ log[n].i > 0
         /\ ReadRuleSkips(log[n].op, StepRules(log[n].op)[log[n].i],
                          log[n].source0)) =>
            /\ log[n].target1 = log[n].target0
            /\ ~leaves_loop(log[n].exc)

\* the TIT1 rule of read_meta found no TIT1 frame and the grouping the GRP1
\* rule had stored stayed
ReadSkipKeepsRecordWitness ==
    /\ fmt = "MP3"
    /\ Len(log) = 1
    /\ log[1].op = "api_read" /\ log[1].i = 4
    /\ ~Has(tags, ID3Key.TIT1)
    /\ log[1].skipped
    /\ Has(log[1].target0, "grouping")
    /\ Get(meta, "grouping") = Str(<<"g">>)

\* the record a read rule yields when it runs alone on the source, with a
\* new record as its target
Alone(op, rule, source) ==
    IF op = "api_read" THEN reader_run(rule, source, <<>>).d
    ELSE Bind(Container("Metadata", <<>>), LAMBDA new :
            run_rule(rule, new,
                     _execute(rule, Container(TagsKind(fmt), source), new)).d)

\* the rules of the call, by index, that yield a value for the field
Yielding(op, source, field) ==
    {i \in 1..Len(StepRules(op)) :
        Has(Alone(op, StepRules(op)[i], source), field)}

\* the fields the rules of the call feed
FedFields(op, source) ==
    UNION {Keys(Alone(op, StepRules(op)[i], source)) :
              i \in 1..Len(StepRules(op))}

\* C23: last writer wins on read: when every rule of the mapping has run,
\* each field holds the value produced by the last rule, in declaration
\* order, whose source yields a usable value for it, and a field no rule
\* yields a value for is unset.
LastWriterWins ==
    \A n \in 1..Len(log) :
        (/\ log[n].op \in ReadOps
         /\ log[n].i = Len(StepRules(log[n].op))
         /\ ~leaves_loop(log[n].exc)) =>
            Bind(log[n].source0, LAMBDA source :
                /\ Keys(log[n].target1) = FedFields(log[n].op, source)
                /\ \A field \in FedFields(log[n].op, source) :
                      Bind(Yielding(log[n].op, source, field), LAMBDA W :
                        Bind(CHOOSE i \in W : \A j \in W : j <= i,
                             LAMBDA last :
                            Get(log[n].target1, field) =
                                Get(Alone(log[n].op,
                                          StepRules(log[n].op)[last],
                                          source), field))))

\* a file with a GRP1 and a TIT1 frame was read by read_meta: two rules
\* yield a grouping and the record holds that of TIT1, the later one
LastWriterWinsWitness ==
    /\ fmt = "MP3"
    /\ Len(log) = 1
    /\ log[1].op = "api_read" /\ log[1].i = Len(StepRules("api_read"))
    /\ Cardinality(Yielding("api_read", tags, "grouping")) = 2
    /\ Get(tags, ID3Key.GRP1) = TextFrame(ID3Key.GRP1, <<"g">>)
    /\ Get(meta, "grouping") = Str(<<"t">>)


\* the field holds an integer above zero
Usable(source, key) ==
    /\ Has(source, key)
    /\ PyInt(Get(source, key)).ok
    /\ PyInt(Get(source, key)).n > 0

\* the number of a usable field
NumberAt(source, key) == PyInt(Get(source, key)).n

\* what the packed key of the format holds for [n, t]: a frame of the text
\* "n/t", or "n" when t is zero (ID3), and [(n, t)] (MP4)
PackedPair(to, n, t) ==
    IF TagsKind(fmt) = "ID3"
    THEN Frame(to, <<Str(IF t = 0 THEN NatToStr(n)
                         ELSE NatToStr(n) \o Slash \o NatToStr(t))>>, <<>>)
    ELSE List(<<Tuple(<<Num(n), Num(t)>>)>>)

\* C24: ToPairTag: when the first (numerator) field is absent, zero or
\* negative the rule skips and the packed target key is deleted; when the
\* numerator is usable and the second field is not, the chain receives
\* [numerator, 0]; when both are usable it receives [numerator, total].
ToPairTagPacks ==
    \A n \in 1..Len(log) :
        RanRule(log[n], "write", "ToPairTag") =>
            Bind(StepRules("write")[log[n].i], LAMBDA rule :
                Bind(log[n].source0, LAMBDA source :
                    /\ log[n].exc = ""
                    /\ ~Usable(source, rule.from[1]) =>
                          Held(log[n].target1, rule.to) = <<>>
                    /\ Usable(source, rule.from[1]) =>
                          Held(log[n].target1, rule.to) =
                            <<PackedPair(rule.to,
                                         NumberAt(source, rule.from[1]),
                                         IF Usable(source, rule.from[2])
                                         THEN NumberAt(source, rule.from[2])
                                         ELSE 0)>>))

\* an MP4 file that held trkn [(1, 1)] was given track 3 and no total: trkn
\* is [(3, 0)]
ToPairTagPacksWitness ==
    /\ fmt = "MP4"
    /\ Len(log) = 1
    /\ RanRule(log[1], "write", "ToPairTag")
    /\ StepRules("write")[log[1].i].to = MP4Key.trkn
    /\ meta = <<Item("tracknum", Num(3))>>
    /\ Has(log[1].target0, MP4Key.trkn)
    /\ Get(tags, MP4Key.trkn) = List(<<Tuple(<<Num(3), Num(0)>>)>>)


\* the parts of the packed value of the source, by position: the pieces of
\* the first text of the frame between the separators (ID3), the items of
\* the first tuple (MP4)
PairParts(rule, source) ==
    Bind(Get(source, rule.from), LAMBDA packed :
        IF TagsKind(fmt) = "ID3"
        THEN Bind(Split({"/"}, packed.text[1].s, <<>>), LAMBDA raw :
                [i \in 1..Len(raw) |-> Str(Strip(raw[i]))])
        ELSE packed.xs[1].xs)

\* the part at the position is there and is an integer the record takes
PartUsable(parts, k) ==
    /\ k <= Len(parts)
    /\ PyInt(parts[k]).ok
    /\ PyInt(parts[k]).n > 0

\* C25: PairTag assigns the part of the packed value before the separator
\* to target-key-0 and the part after it to target-key-1, each on its own:
\* a part that is missing, empty or not an integer leaves only its own key
\* unset; when the source key is absent neither key is modified.
PairTagIndependent ==
    \A n \in 1..Len(log) :
        RanRule(log[n], "read", "PairTag") =>
            Bind(StepRules("read")[log[n].i], LAMBDA rule :
                IF ~Has(log[n].source0, rule.from)
                THEN log[n].target1 = log[n].target0
                ELSE Bind(PairParts(rule, log[n].source0), LAMBDA parts :
                        \A k \in 1..2 :
                            IF PartUsable(parts, k)
                            THEN /\ Has(log[n].target1, rule.to[k])
                                 /\ Get(log[n].target1, rule.to[k]) =
                                        Num(PyInt(parts[k]).n)
                            ELSE ~Has(log[n].target1, rule.to[k])))


\* the candidate a field gives: its string form without the blanks around
\* it, when that is not empty
Candidate(source, key) ==
    IF Has(source, key) /\ Strip(PyStr(Get(source, key))) # <<>>
    THEN <<Strip(PyStr(Get(source, key)))>>
    ELSE <<>>

\* the candidates of grouping, albumsort and album, in that order
Candidates(source) ==
    Candidate(source, "grouping") \o Candidate(source, "albumsort")
        \o Candidate(source, "album")

\* what the target key holds for the sort key: a frame of that text (ID3),
\* a list of it (MP4, Vorbis)
SortKeyValue(to, text) ==
    IF TagsKind(fmt) = "ID3" THEN Frame(to, <<Str(text)>>, <<>>)
    ELSE List(<<Str(text)>>)

\* the AlbumsortTag of the step left the target as it was
NoSortKeyWritten(e) == e.target1 = e.target0

\* the AlbumsortTag of the step stored the candidates joined with a space
SortKeyWritten(e) ==
    Held(e.target1, StepRules("write")[e.i].to) =
        <<SortKeyValue(StepRules("write")[e.i].to,
                       Join(Space, Candidates(e.source0)))>>

\* C26 as stated: with exactly one candidate the rule writes no sort key;
\* with two or three candidates, whichever fields they come from, it writes
\* them joined with the separator, in that order.
AlbumsortAnyTwo ==
    \A n \in 1..Len(log) :
        RanRule(log[n], "write", "AlbumsortTag") =>
            /\ Len(Candidates(log[n].source0)) = 1 => NoSortKeyWritten(log[n])
            /\ Len(Candidates(log[n].source0)) >= 2 => SortKeyWritten(log[n])

\* C26: AlbumsortTag takes as candidates the non-empty string forms of
\* grouping, albumsort and album, in that order: without a grouping
\* candidate, or with the grouping as the only candidate, the rule skips
\* and writes no sort key; with the grouping and one or both of the others
\* it writes the candidates joined with the separator, in that order.
AlbumsortNeedsGrouping ==
    \A n \in 1..Len(log) :
        RanRule(log[n], "write", "AlbumsortTag") =>
            Bind(log[n].source0, LAMBDA source :
                IF Candidate(source, "grouping") # <<>>
                   /\ Len(Candidates(source)) >= 2
                THEN SortKeyWritten(log[n])
                ELSE NoSortKeyWritten(log[n]))

\* grouping, albumsort and album were given: the stale TSOA frame was
\* replaced by one of the text "g 2 a"
AlbumsortWitness ==
    /\ fmt = "MP3"
    /\ Len(log) = 1
    /\ RanRule(log[1], "write", "AlbumsortTag")
    /\ Len(Candidates(meta)) = 3
    /\ Get(log[1].target0, ID3Key.TSOA) = TextFrame(ID3Key.TSOA, <<"o">>)
    /\ Get(tags, ID3Key.TSOA) =
          TextFrame(ID3Key.TSOA, <<"g", " ", "2", " ", "a">>)


\* the embedded pictures of the source in rank order, those the filter of
\* the rule rejects left out
Ranked(rule, source) ==
    _embedded_iter(rule, Container(TagsKind(fmt), source), rule.key).val

\* the candidates that decode as an image, in rank order
Decoding(rule, source) ==
    SelectSeq(Ranked(rule, source), LAMBDA pic : RawBytes(pic).valid)

\* C27: PictureOut passes over, without raising, a candidate that its
\* filter rejects or that fails to decode as an image and tries the next in
\* rank order: the cover is the highest-ranked candidate that decodes, and
\* is unset, with no error, when none decodes.
PictureOutSkipsInvalid ==
    \A n \in 1..Len(log) :
        RanRule(log[n], "read", "PictureOut") =>
            Bind(Decoding(StepRules("read")[log[n].i], log[n].source0),
                 LAMBDA decoding :
                /\ log[n].exc = ""
                /\ IF decoding = <<>> THEN ~Has(log[n].target1, COVER)
                   ELSE /\ Has(log[n].target1, COVER)
                        /\ Get(log[n].target1, COVER) =
                              ImageStream_from_file(decoding[1]).val)


\* the source holds no cover: the key is absent
NoCover(source) == ~Has(source, COVER)

\* the embedded pictures of the target: the frames whose key is the key or
\* starts with "key:" (ID3), the value under the key (MP4, Vorbis)
Pictures(d, key) ==
    IF TagsKind(fmt) = "ID3"
    THEN SelectSeq(d, LAMBDA item :
            item.k = key \/ StartsWith(item.k, key \o Colon))
    ELSE SelectSeq(d, LAMBDA item : item.k = key)

\* the picture key of the write mapping: the key of its PictureIn
PictureKey == StepRules("write")[1].key

\* C28: PictureIn without a cover is a no-op: when the record has no cover,
\* the rule leaves the target as it was, and every step of the write leaves
\* the embedded pictures under the picture key as they were.
PictureInNoCover ==
    \A n \in 1..Len(log) :
        (log[n].op = "write" /\ NoCover(log[n].source0)) =>
            /\ Pictures(log[n].target1, PictureKey) =
                  Pictures(log[n].target0, PictureKey)
            /\ RanRule(log[n], "write", "PictureIn") =>
                  /\ log[n].target1 = log[n].target0
                  /\ log[n].exc = ""

\* a record without a cover was written to a file with two embedded
\* pictures, one of them described: after the PictureIn both are there
PictureInNoCoverWitness ==
    /\ fmt = "MP3"
    /\ Len(log) = 1
    /\ RanRule(log[1], "write", "PictureIn")
    /\ NoCover(meta) /\ meta # <<>>
    /\ Len(Pictures(tags, ID3Key.APIC)) = 2


\* the image data of a cover: that of the image, or of the bytes once
\* opened as an image
CoverData(cover) ==
    IF cover.t = "image" THEN cover.data
    ELSE ImageStream_from_file(cover).val.data

\* the cover of the record is an image, or bytes that decode as one
IsImage(cover) == cover.t = "image" \/ (IsBytes(cover) /\ RawBytes(cover).valid)

\* the stored value is a front-cover picture of the data: an APIC frame or
\* an encoded Picture of the container's code for a front cover, an
\* MP4Cover
IsFrontCoverOf(stored, data) ==
    CASE stored.t = "apic" ->
            stored.type = ContainerPictureType("COVER_FRONT")
                /\ stored.data = data
      [] stored.t = "b64" ->
            stored.picture.type = ContainerPictureType("COVER_FRONT")
                /\ stored.picture.data = data
      [] stored.t = "mp4cover" -> stored.data = data
      [] stored.t = "list" ->
            \E i \in 1..Len(stored.xs) :
                stored.xs[i].t \in {"b64", "mp4cover"}
                    /\ (IF stored.xs[i].t = "b64"
                        THEN stored.xs[i].picture.type =
                                 ContainerPictureType("COVER_FRONT")
                             /\ stored.xs[i].picture.data = data
                        ELSE stored.xs[i].data = data)
      [] OTHER -> FALSE

\* the described pictures stored under the key: the values with a desc
\* attribute
Described(d, key) ==
    {item \in {Pictures(d, key)[i] : i \in 1..Len(Pictures(d, key))} :
        HasDesc(item.v)}

\* C29: PictureIn with a cover: the rule deletes every embedded picture
\* under the target key that has a description sub-field and then inserts
\* the new picture: afterwards the key holds the new cover as a front-cover
\* picture and none of the described pictures stored before.
PictureInReplaces ==
    \A n \in 1..Len(log) :
        (/\ RanRule(log[n], "write", "PictureIn")
         /\ Has(log[n].source0, COVER)
         /\ IsImage(Get(log[n].source0, COVER))) =>
            /\ log[n].exc = ""
            /\ Described(log[n].target0, PictureKey)
                   \cap Described(log[n].target1, PictureKey) = {}
            /\ \E i \in 1..Len(log[n].target1) :
                  IsFrontCoverOf(log[n].target1[i].v,
                                 CoverData(Get(log[n].source0, COVER)))


====
